---- MODULE Spec2Model ----
(***************************************************************************)
(* Model of the Stream Deck device session of RiverDeck-Redux              *)
(* (crates/device/src/stream_deck.rs): the worker thread started by        *)
(* StreamDeckService::connect, the two tokio mpsc channels it shares with   *)
(* its consumer, and the command handles.                                  *)
(*                                                                         *)
(* One step of the worker is one channel or device operation of            *)
(* run_stream_deck_thread; the consumer and the command callers run        *)
(* concurrently with it.  thread::sleep has no effect on the state and is  *)
(* folded into the step back to the top of the loop.                       *)
(***************************************************************************)
EXTENDS Integers, Sequences, FiniteSets, TLC

VARIABLES
    pc,         \* position of the worker in run_stream_deck_thread
    term,       \* why the worker returned: "none", "idle", "read_error"
    cmdq,       \* cmd channel (cmd_tx -> cmd_rx): queued DeviceCommands
    cur,        \* the command taken by try_recv and being executed
    page,       \* `page` of set_key_image_v1_jpeg: reports written so far
    devlog,     \* device-side history: device operations and replies, in order
    cstat,      \* per command id: what its caller has seen of it
    nextId,     \* id of the next command to be enqueued (enqueue order)
    handles,    \* clones of StreamDeckHandle (cmd_tx) still held
    rxAlive,    \* the consumer still holds event_rx
    events,     \* event channel (event_tx -> event_rx): buffered events
    received,   \* events the consumer has taken from event_rx, in order
    decoded,    \* events handed to blocking_send by the worker, in order
    last_keys,  \* `last_keys` snapshot of the worker
    current,    \* `states` parsed from the last valid key-state report
    emit_k,     \* events of the current report already handed to the channel
    nreads,     \* number of reads that returned a report (n > 0)
    mark,       \* commands enqueued so far when the read began whose result
                \* is being emitted (0 when none is)
    hid,        \* what HidContext::list_all returns: the enumeration
    listed,     \* the result of list_devices, once it was called
    conn,       \* the connect call: its outcome and what it resolved
    codec,      \* a call of a pure function: its input and its result
    sessions,   \* the worker threads spawned by repeated connect calls
    last_dials_down,  \* `last_dials_down` snapshot of the worker
    pending,    \* events of emit_plus_events for the report in buf
    buf         \* buf[..n] of the last read that returned a report

sessVars == <<pc, term, cmdq, cur, page, devlog, cstat, nextId, handles,
              rxAlive, events, received, decoded, last_keys, current, emit_k,
              nreads, mark>>

auxVars == <<sessions, last_dials_down, pending, buf>>

svcVars == <<hid, listed, conn, codec, sessions, last_dials_down, pending,
             buf>>

vars == <<pc, term, cmdq, cur, page, devlog, cstat, nextId, handles, rxAlive,
          events, received, decoded, last_keys, current, emit_k, nreads, mark,
          hid, listed, conn, codec, sessions, last_dials_down, pending, buf>>

(***************************************************************************)
(* Bounds of the model.                                                    *)
(***************************************************************************)
MaxOps == 3         \* inputs over a run: commands issued plus reports read
EventCap == 2       \* capacity of the event channel (128 in connect), scaled
CmdCap == 2         \* capacity of the command channel (32 in connect), scaled
MaxHid == 3         \* HID descriptors in one enumeration
MaxSessions == 2    \* connect calls that returned a session record
MaxReads == 2       \* reports read in a run of the input decoder

(***************************************************************************)
(* Program constants.                                                      *)
(***************************************************************************)
KeyCount == 6           \* key_count of a Mini (product id 0x0063)
REPORT_LEN == 1024
HEADER_LEN == 8
KeyStateReportId == 1   \* report[0] of a key-state report
ELGATO_VENDOR_ID == 4057            \* 0x0fd9
KNOWN_STREAMDECK_PRODUCT_IDS == {96, 99, 108, 128}
BRIGHTNESS_REPORT_LEN == 17         \* [0u8; 17] of set_brightness_v1
PAGE_MOD == 65536                   \* `page` is a u16
PLUS_KEYS == 8                      \* `1 + 8 + 4` and `1 + 8` of emit_plus_events
DIALS == 4                          \* [bool; 4], `0..4usize`

Handles == {"h1", "h2"}
NoCmd == [id |-> 0]

Min(a, b) == IF a < b THEN a ELSE b

(***************************************************************************)
(* Binary report codec (pure functions).                                   *)
(***************************************************************************)

\* Mutant of parse_key_states_v1: a report longer than 1 + key_count is
\* rejected.
parse_key_states_v1_exact(report, key_count) ==
    IF Len(report) = 0 THEN [ok |-> FALSE, states |-> <<>>]
    ELSE IF report[1] # KeyStateReportId THEN [ok |-> FALSE, states |-> <<>>]
    ELSE IF Len(report) # 1 + key_count THEN [ok |-> FALSE, states |-> <<>>]
    ELSE [ok |-> TRUE, states |-> [i \in 1..key_count |-> report[1 + i] # 0]]

\* parse_key_states_v1: the key states of a report, or <<>> wrapped as
\* [ok |-> FALSE] for None.
parse_key_states_v1(report, key_count) ==
    IF Len(report) = 0 THEN [ok |-> FALSE, states |-> <<>>]
    ELSE IF report[1] # KeyStateReportId THEN [ok |-> FALSE, states |-> <<>>]
    ELSE IF Len(report) < 1 + key_count THEN [ok |-> FALSE, states |-> <<>>]
    ELSE [ok |-> TRUE, states |-> [i \in 1..key_count |-> report[1 + i] # 0]]

\* DeviceEvent::Control(ControlEvent { control: ControlId::Key(key), kind })
KeyEvent(key, now) ==
    [control |-> <<"Key", key>>, kind |-> IF now THEN "Down" ELSE "Up"]

\* DeviceEvent::Disconnected
Disconnected == [control |-> <<"None", 0>>, kind |-> "Disconnected"]

\* Mutant of KeyEventsFrom: the `prev == now` test is lost, so an event is
\* produced for every index.
RECURSIVE KeyEventsFromNoSkip(_, _, _)
KeyEventsFromNoSkip(last, cur_states, i) ==
    IF i > Min(Len(last), Len(cur_states)) THEN <<>>
    ELSE <<KeyEvent(i - 1, cur_states[i])>>
         \o KeyEventsFromNoSkip(last, cur_states, i + 1)

\* Mutant of KeyEventsFrom: the keys are visited in descending order.
RECURSIVE KeyEventsFromDescending(_, _, _)
KeyEventsFromDescending(last, cur_states, i) ==
    IF i > Min(Len(last), Len(cur_states)) THEN <<>>
    ELSE IF last[i] = cur_states[i]
         THEN KeyEventsFromDescending(last, cur_states, i + 1)
         ELSE KeyEventsFromDescending(last, cur_states, i + 1)
              \o <<KeyEvent(i - 1, cur_states[i])>>

\* emit_key_events, the loop: the events it hands to the channel for indices
\* i.. of the zip of last and current, in order (i is 1-based, key = i - 1).
RECURSIVE KeyEventsFrom(_, _, _)
KeyEventsFrom(last, cur_states, i) ==
    IF i > Min(Len(last), Len(cur_states)) THEN <<>>
    ELSE IF last[i] = cur_states[i] THEN KeyEventsFrom(last, cur_states, i + 1)
    ELSE <<KeyEvent(i - 1, cur_states[i])>> \o KeyEventsFrom(last, cur_states, i + 1)

KeyEvents(last, cur_states) == KeyEventsFrom(last, cur_states, 1)

\* set_key_image_v1_jpeg: number of reports written for a jpeg of length len
\* (the loop runs while offset < len, taking min(remaining, max_payload)).
RECURSIVE ChunksFrom(_, _)
ChunksFrom(offset, len) ==
    LET max_payload == REPORT_LEN - HEADER_LEN
        take == Min(len - offset, max_payload)
    IN  IF offset < len THEN 1 + ChunksFrom(offset + take, len) ELSE 0

NumChunks(len) == ChunksFrom(0, len)

\* Device operations a command performs: one feature report for brightness,
\* one output report per chunk for an image.
NumWrites(cmd) ==
    IF cmd.kind = "SetBrightness" THEN 1 ELSE NumChunks(cmd.jpeg_len)

\* Key index the image of a command is written to (lines 220-237).
TargetKey(cmd) ==
    CASE cmd.kind = "SetKeyImageJpeg" -> cmd.arg
      [] cmd.kind = "SetDialImageJpeg" -> Min(8 + Min(cmd.arg, 3), 255)
      [] cmd.kind = "SetTouchStripImageJpeg" -> 12
      [] OTHER -> 0

\* The device operation a command performs as its operation number page:
\* send_feature_report for brightness, dev.write of chunk `page` for an
\* image.
DeviceOp(cmd, pg) ==
    [op |-> IF cmd.kind = "SetBrightness" THEN "feature" ELSE "write",
     id |-> cmd.id, key |-> TargetKey(cmd), page |-> pg]

(***************************************************************************)
(* Inputs.                                                                 *)
(***************************************************************************)

\* Key-state bytes of a report in which exactly the keys of S are down; a
\* pressed key is reported as byte v.
KeyBytes(S, v) == [i \in 1..KeyCount |-> IF (i - 1) \in S THEN v ELSE 0]

\* Reports a read may return: well-formed key-state reports (also with a
\* trailing byte, and with a non-1 pressed byte), a truncated one, and one
\* with another report id.
Reports ==
    {<<KeyStateReportId>> \o KeyBytes(S, 1) : S \in {{}, {0}, {0, 1}}}
    \cup {<<KeyStateReportId>> \o KeyBytes({0}, 255) \o <<9>>,
          <<KeyStateReportId, 1>>,
          <<3, 0, 1>>}

\* Commands a caller may issue through a handle.
CommandInputs ==
    {[kind |-> "SetBrightness", arg |-> 150, jpeg_len |-> 0],
     [kind |-> "SetKeyImageJpeg", arg |-> 0, jpeg_len |-> 1017],
     [kind |-> "SetDialImageJpeg", arg |-> 1, jpeg_len |-> 1016],
     [kind |-> "SetTouchStripImageJpeg", arg |-> 0, jpeg_len |-> 0]}

(***************************************************************************)
(* tokio mpsc channels.                                                    *)
(***************************************************************************)

\* Sender::is_closed of event_tx: the receiver was dropped.
EventTxClosed == ~rxAlive

\* Receiver::is_closed of cmd_rx: every sender (handle clone) was dropped.
CmdRxClosed == handles = {}

\* Sender::blocking_send on the event channel returns (Ok when there is room,
\* Err when the receiver is gone); with the receiver alive and the buffer
\* full it does not return.
SendReturns == EventTxClosed \/ Len(events) < EventCap

\* The buffer after blocking_send(ev) returned.
AfterSend(ev) == IF EventTxClosed THEN events ELSE Append(events, ev)

\* Mutant of TakeIndex: try_recv takes the newest queued command.
TakeIndexNewest(q) == Len(q)

\* Receiver::try_recv on the command channel takes the oldest queued command:
\* its position in the queue, the command, and the queue without it.
TakeIndex(q) == 1
TryRecvCmd(q) == q[TakeIndex(q)]
RestCmd(q) == SubSeq(q, 1, TakeIndex(q) - 1) \o SubSeq(q, TakeIndex(q) + 1, Len(q))

\* An event with the bookkeeping of the model: the number of the read it was
\* decoded from.
Tagged(ev, rep) == [control |-> ev.control, kind |-> ev.kind, rep |-> rep]
Untag(e) == [control |-> e.control, kind |-> e.kind]

\* The run may take one more input (a command or a report).
OpsLeft == (nextId - 1) + nreads < MaxOps

(***************************************************************************)
(* Discovery and connect (pure functions, lines 36-161).                   *)
(*                                                                         *)
(* Option<T> is a sequence: <<>> is None and <<v>> is Some(v).  A          *)
(* descriptor is a record of the HidDiscoveredDevice fields that the       *)
(* service reads; its path is its position in the enumeration.  The 64-bit *)
(* hash of stable_device_id is taken to be free of collisions: a DeviceId  *)
(* is the triple that is hashed.                                           *)
(***************************************************************************)
None == <<>>
Some(v) == <<v>>

UpperCase == "ABCDEFGHIJKLMNOPQRSTUVWXYZ"
LowerCase == "abcdefghijklmnopqrstuvwxyz"
HexDigits == "0123456789abcdef"

CharAt(s, i) == SubSeq(s, i, i)

\* u8::to_ascii_lowercase: 'A'..='Z' go to 'a'..='z', any other character
\* stays.
LowerTable ==
    [c \in {CharAt(UpperCase, i) : i \in 1..Len(UpperCase)} |->
        CharAt(LowerCase, CHOOSE i \in 1..Len(UpperCase) :
                              CharAt(UpperCase, i) = c)]

LowerChar(c) == IF c \in DOMAIN LowerTable THEN LowerTable[c] ELSE c

RECURSIVE LowerFrom(_, _)
LowerFrom(s, i) ==
    IF i > Len(s) THEN ""
    ELSE LowerChar(CharAt(s, i)) \o LowerFrom(s, i + 1)

\* str::to_ascii_lowercase
to_ascii_lowercase(s) == LowerFrom(s, 1)

\* str::contains
contains(s, pat) ==
    \E i \in 1..(Len(s) - Len(pat) + 1) : SubSeq(s, i, i + Len(pat) - 1) = pat

\* format!("{:04x}", n) of a u16
Hex4(n) ==
    CharAt(HexDigits, ((n \div 4096) % 16) + 1)
      \o CharAt(HexDigits, ((n \div 256) % 16) + 1)
      \o CharAt(HexDigits, ((n \div 16) % 16) + 1)
      \o CharAt(HexDigits, (n % 16) + 1)

\* Option::unwrap_or
unwrap_or(opt, default) == IF opt = None THEN default ELSE opt[1]

stable_device_id(vendor_id, product_id, serial) ==
    <<vendor_id, product_id, serial>>

DeviceIdOf(d) == stable_device_id(d.vendor_id, d.product_id, d.serial_number)

\* Mutant of looks_like_stream_deck: the product string is matched as it
\* is, without to_ascii_lowercase.
looks_like_stream_deck_cased(d) ==
    /\ d.vendor_id = ELGATO_VENDOR_ID
    /\ \/ d.product_id \in KNOWN_STREAMDECK_PRODUCT_IDS
       \/ contains(unwrap_or(d.product_string, ""), "stream deck")

looks_like_stream_deck(d) ==
    /\ d.vendor_id = ELGATO_VENDOR_ID
    /\ \/ d.product_id \in KNOWN_STREAMDECK_PRODUCT_IDS
       \/ contains(to_ascii_lowercase(unwrap_or(d.product_string, "")),
                   "stream deck")

\* display_name of list_devices (lines 79-88).
DisplayName(d) ==
    unwrap_or(d.product_string,
              "Stream Deck (" \o Hex4(d.vendor_id) \o ":"
                  \o Hex4(d.product_id) \o ")")

HasId(out, id) == \E k \in 1..Len(out) : out[k].id = id

\* Mutant of ListFrom: every recognized descriptor gets a row.
RECURSIVE ListFromNoDedup(_, _, _)
ListFromNoDedup(h, i, out) ==
    IF i > Len(h) THEN out
    ELSE IF ~looks_like_stream_deck(h[i])
         THEN ListFromNoDedup(h, i + 1, out)
         ELSE ListFromNoDedup(h, i + 1,
                  Append(out, [id |-> DeviceIdOf(h[i]),
                               display_name |-> DisplayName(h[i])]))

\* The loop of list_devices (lines 74-100) from descriptor i on.
RECURSIVE ListFrom(_, _, _)
ListFrom(h, i, out) ==
    IF i > Len(h) THEN out
    ELSE IF ~looks_like_stream_deck(h[i])
         THEN ListFrom(h, i + 1, out)
         ELSE IF HasId(out, DeviceIdOf(h[i]))
              THEN ListFrom(h, i + 1, out)
              ELSE ListFrom(h, i + 1,
                       Append(out, [id |-> DeviceIdOf(h[i]),
                                    display_name |-> DisplayName(h[i])]))

list_devices(h) == ListFrom(h, 1, <<>>)

\* The Candidate of descriptor i of the enumeration (lines 112-121).
Candidate(h, i) ==
    [id |-> DeviceIdOf(h[i]),
     name |-> unwrap_or(h[i].product_string, "Stream Deck"),
     product_id |-> h[i].product_id,
     interface_number |-> h[i].interface_number,
     path |-> i]

\* Mutant of CandidatesFrom: descriptors are not filtered by
\* looks_like_stream_deck.
RECURSIVE CandidatesFromUnfiltered(_, _, _)
CandidatesFromUnfiltered(h, i, id) ==
    IF i > Len(h) THEN <<>>
    ELSE IF DeviceIdOf(h[i]) = id
         THEN <<Candidate(h, i)>> \o CandidatesFromUnfiltered(h, i + 1, id)
         ELSE CandidatesFromUnfiltered(h, i + 1, id)

\* Mutant of CandidatesFrom: the candidates are not filtered by id.
RECURSIVE CandidatesFromAnyId(_, _, _)
CandidatesFromAnyId(h, i, id) ==
    IF i > Len(h) THEN <<>>
    ELSE IF looks_like_stream_deck(h[i])
         THEN <<Candidate(h, i)>> \o CandidatesFromAnyId(h, i + 1, id)
         ELSE CandidatesFromAnyId(h, i + 1, id)

RECURSIVE CandidatesFrom(_, _, _)
CandidatesFrom(h, i, id) ==
    IF i > Len(h) THEN <<>>
    ELSE IF looks_like_stream_deck(h[i]) /\ DeviceIdOf(h[i]) = id
         THEN <<Candidate(h, i)>> \o CandidatesFrom(h, i + 1, id)
         ELSE CandidatesFrom(h, i + 1, id)

\* Lines 107-123: the candidates of id, in enumeration order.
Candidates(h, id) == CandidatesFrom(h, 1, id)

SortKey(c) == unwrap_or(c.interface_number, 999)

\* Insertion of c after the elements of the sorted s whose key is not
\* larger: slice::sort_by_key is stable.
RECURSIVE InsertByKey(_, _)
InsertByKey(s, c) ==
    IF s = <<>> THEN <<c>>
    ELSE IF SortKey(Head(s)) <= SortKey(c)
         THEN <<Head(s)>> \o InsertByKey(Tail(s), c)
         ELSE <<c>> \o s

\* Mutant of sort_by_key: the candidates stay in enumeration order.
sort_by_key_unsorted(s) == s

RECURSIVE sort_by_key(_)
sort_by_key(s) ==
    IF s = <<>> THEN <<>>
    ELSE InsertByKey(sort_by_key(SubSeq(s, 1, Len(s) - 1)), s[Len(s)])

\* Iterator::find: the first element with the given interface number.
FindInterface(s, n) ==
    IF \E k \in 1..Len(s) : s[k].interface_number = Some(n)
    THEN Some(s[CHOOSE k \in 1..Len(s) :
                   /\ s[k].interface_number = Some(n)
                   /\ \A j \in 1..(k - 1) : s[j].interface_number # Some(n)])
    ELSE None

\* Lines 134-139, on the sorted candidates.
WritePath(s) == unwrap_or(FindInterface(s, 0), s[1]).path

\* Mutant of ReadPath: the last candidate is always the read path.
ReadPathLast(s) == s[Len(s)].path

\* Lines 140-145, on the sorted candidates.
ReadPath(s) == unwrap_or(FindInterface(s, 1), s[Len(s)]).path

\* Lines 147-149.
IsPlus(name) ==
    LET product_lower == to_ascii_lowercase(name)
    IN  \/ contains(product_lower, "plus")
        \/ contains(product_lower, "stream deck +")

\* Mutant of KeyCountOf: the name heuristic is applied before the table.
KeyCountOfPlusFirst(product_id, is_plus) ==
    IF is_plus THEN 8
    ELSE CASE product_id = 99 -> 6
           [] product_id = 108 -> 32
           [] OTHER -> 15

\* Lines 150-161.
KeyCountOf(product_id, is_plus) ==
    CASE product_id = 99 -> 6
      [] product_id = 108 -> 32
      [] OTHER -> IF is_plus THEN 8 ELSE 15

\* What connect(id) has computed when it creates the channels (line 163),
\* for a non-empty candidate list.
Resolved(h, id) ==
    LET s == sort_by_key(Candidates(h, id))
        is_plus == IsPlus(s[1].name)
    IN  [id |-> id,
         name |-> s[1].name,
         is_plus |-> is_plus,
         key_count |-> KeyCountOf(s[1].product_id, is_plus),
         write_path |-> WritePath(s),
         read_path |-> ReadPath(s)]

\* The state of a connect call: not made, failed, or returned Ok.
NoConnect ==
    [st |-> "idle", id |-> <<>>, name |-> "", is_plus |-> FALSE,
     key_count |-> 0, write_path |-> 0, read_path |-> 0]

Connected(st, r) ==
    [st |-> st, id |-> r.id, name |-> r.name, is_plus |-> r.is_plus,
     key_count |-> r.key_count, write_path |-> r.write_path,
     read_path |-> r.read_path]

Failed(st, id) == [NoConnect EXCEPT !.st = st, !.id = id]

NotListed == [done |-> FALSE, out |-> <<>>]
Listed(out) == [done |-> TRUE, out |-> out]

(***************************************************************************)
(* Enumerations the service may see.                                       *)
(***************************************************************************)
Mini ==
    [vendor_id |-> ELGATO_VENDOR_ID, product_id |-> 99,
     product_string |-> Some("Stream Deck Mini"), serial_number |-> Some("A")]

\* Recognized by its product string only (unknown product id).
PlusByName ==
    [vendor_id |-> ELGATO_VENDOR_ID, product_id |-> 132,
     product_string |-> Some("Stream Deck +"), serial_number |-> None]

\* Another vendor's device with a known product id and a matching string.
OtherVendor ==
    [vendor_id |-> 1133, product_id |-> 99,
     product_string |-> Some("Stream Deck"), serial_number |-> Some("A")]

DeviceKinds == {Mini, PlusByName, OtherVendor}

\* HidDiscoveredDevice.interface_number (transport-hid lib.rs line 27).
InterfaceNumbers == {None, Some(0), Some(1), Some(2)}

Descriptor(kind, ifn) ==
    [vendor_id |-> kind.vendor_id, product_id |-> kind.product_id,
     product_string |-> kind.product_string,
     serial_number |-> kind.serial_number, interface_number |-> ifn]

Descriptors == {Descriptor(k, n) : k \in DeviceKinds, n \in InterfaceNumbers}

\* HidContext::list_all: any sequence of at most MaxHid descriptors.
Enumerations == UNION {[1..n -> Descriptors] : n \in 0..MaxHid}

\* The ids a caller may pass to connect.
ConnectIds == {DeviceIdOf(k) : k \in DeviceKinds}

\* The enumeration behind the session of Spec: a Mini with two interfaces.
SessionHid == <<Descriptor(Mini, Some(0)), Descriptor(Mini, Some(1))>>

\* A Stream Deck + with two interfaces, and both devices together.
PlusHid == <<Descriptor(PlusByName, Some(0)), Descriptor(PlusByName, Some(1))>>
BothHid == SessionHid \o PlusHid

\* Devices of the other key counts: a Stream Deck Original, an XL, an XL
\* whose product string has the word "Plus", a device of unknown product id
\* named with the word, and an Original whose interfaces report different
\* product strings.
Original ==
    [vendor_id |-> ELGATO_VENDOR_ID, product_id |-> 96,
     product_string |-> Some("Stream Deck"), serial_number |-> Some("B")]
XL ==
    [vendor_id |-> ELGATO_VENDOR_ID, product_id |-> 108,
     product_string |-> Some("Stream Deck XL"), serial_number |-> Some("B")]
XLPlusNamed ==
    [vendor_id |-> ELGATO_VENDOR_ID, product_id |-> 108,
     product_string |-> Some("Stream Deck XL Plus"),
     serial_number |-> Some("B")]
PlusByWord ==
    [vendor_id |-> ELGATO_VENDOR_ID, product_id |-> 132,
     product_string |-> Some("Stream Deck PLUS"), serial_number |-> None]
OriginalUnnamed ==
    [vendor_id |-> ELGATO_VENDOR_ID, product_id |-> 96,
     product_string |-> None, serial_number |-> Some("B")]
OriginalPlusNamed ==
    [vendor_id |-> ELGATO_VENDOR_ID, product_id |-> 96,
     product_string |-> Some("Stream Deck Plus"), serial_number |-> Some("B")]

\* The enumeration of one device with the interfaces 0 and 1, a being the
\* descriptor of interface 0 and b that of interface 1, listed in the
\* order b, a.
TwoInterfaces(a, b) == <<Descriptor(b, Some(1)), Descriptor(a, Some(0))>>

KindEnumerations ==
    {SessionHid, PlusHid,
     TwoInterfaces(Original, Original), TwoInterfaces(XL, XL),
     TwoInterfaces(XLPlusNamed, XLPlusNamed),
     TwoInterfaces(PlusByWord, PlusByWord),
     TwoInterfaces(OriginalPlusNamed, OriginalUnnamed),
     TwoInterfaces(OriginalUnnamed, OriginalPlusNamed)}

(***************************************************************************)
(* Output reports, byte by byte (lines 369-414).                           *)
(***************************************************************************)
Zeros(n) == [i \in 1..n |-> 0]

\* Mutant of set_brightness_v1: the percent is not clamped.
set_brightness_v1_unclamped(percent) ==
    <<5, 85, percent>> \o Zeros(BRIGHTNESS_REPORT_LEN - 3)

\* The feature report of set_brightness_v1 (lines 371-375); percent is a u8.
set_brightness_v1(percent) ==
    <<5, 85, Min(percent, 100)>> \o Zeros(BRIGHTNESS_REPORT_LEN - 3)

\* Mutant of ImageReportsFrom: is_last is set when the chunk ends beyond the
\* buffer.
RECURSIVE ImageReportsFromStrictLast(_, _, _, _)
ImageReportsFromStrictLast(key, jpeg, offset, pg) ==
    IF offset >= Len(jpeg) THEN <<>>
    ELSE LET take == Min(Len(jpeg) - offset, REPORT_LEN - HEADER_LEN)
             is_last == IF offset + take > Len(jpeg) THEN 1 ELSE 0
             header == <<2, 1, key, is_last, pg % 256, pg \div 256,
                         take % 256, take \div 256>>
             report == header \o SubSeq(jpeg, offset + 1, offset + take)
                          \o Zeros(REPORT_LEN - HEADER_LEN - take)
         IN  <<report>> \o ImageReportsFromStrictLast(key, jpeg, offset + take,
                                                      (pg + 1) % PAGE_MOD)

\* Mutant of ImageReportsFrom: the page counter is not advanced.
RECURSIVE ImageReportsFromSamePage(_, _, _, _)
ImageReportsFromSamePage(key, jpeg, offset, pg) ==
    IF offset >= Len(jpeg) THEN <<>>
    ELSE LET take == Min(Len(jpeg) - offset, REPORT_LEN - HEADER_LEN)
             is_last == IF offset + take >= Len(jpeg) THEN 1 ELSE 0
             header == <<2, 1, key, is_last, pg % 256, pg \div 256,
                         take % 256, take \div 256>>
             report == header \o SubSeq(jpeg, offset + 1, offset + take)
                          \o Zeros(REPORT_LEN - HEADER_LEN - take)
         IN  <<report>> \o ImageReportsFromSamePage(key, jpeg, offset + take,
                                                    pg)

\* The reports written by the loop of set_key_image_v1_jpeg (lines 391-411)
\* from `offset` on, `pg` being the u16 page counter; every dev.write
\* succeeds.
RECURSIVE ImageReportsFrom(_, _, _, _)
ImageReportsFrom(key, jpeg, offset, pg) ==
    IF offset >= Len(jpeg) THEN <<>>
    ELSE LET take == Min(Len(jpeg) - offset, REPORT_LEN - HEADER_LEN)
             is_last == IF offset + take >= Len(jpeg) THEN 1 ELSE 0
             header == <<2, 1, key, is_last, pg % 256, pg \div 256,
                         take % 256, take \div 256>>
             report == header \o SubSeq(jpeg, offset + 1, offset + take)
                          \o Zeros(REPORT_LEN - HEADER_LEN - take)
         IN  <<report>> \o ImageReportsFrom(key, jpeg, offset + take,
                                            (pg + 1) % PAGE_MOD)

set_key_image_v1_jpeg(key, jpeg) == ImageReportsFrom(key, jpeg, 0, 0)

\* JPEG buffers: the lengths around one and two full payloads, with bytes
\* that differ from one position to the next.
JpegLens == {0, 1, 1015, 1016, 1017, 2032, 2033}
JpegSeeds == {0, 1, 2}
Jpeg(len, seed) == [i \in 1..len |-> (7 * i + seed) % 256]
Jpegs == {Jpeg(len, seed) : len \in JpegLens, seed \in JpegSeeds}

\* Keys given to set_key_image_v1_jpeg (a u8): a key, a dial, the strip.
ImageKeys == {0, 5, 9, 12, 255}

NoCall == [fn |-> "none", arg |-> 0, jpeg |-> <<>>, out |-> <<>>]

(***************************************************************************)
(* Input reports of an enhanced device (emit_plus_events, lines 303-367).  *)
(* A report is the sequence of bytes buf[..n]; report[0] of the code is    *)
(* report[1] here.                                                         *)
(***************************************************************************)

\* `b as i8 as i32`
Signed8(b) == IF b >= 128 THEN b - 256 ELSE b

\* u16::from_le_bytes and i16::from_le_bytes
U16le(lo, hi) == lo + 256 * hi
I16le(lo, hi) == IF U16le(lo, hi) >= 32768 THEN U16le(lo, hi) - 65536
                 ELSE U16le(lo, hi)

\* ControlEvents of the dials and the touch strip. Down and Up carry no
\* value.
DialEvent(i, now) ==
    [control |-> <<"Dial", i>>, kind |-> IF now THEN "Down" ELSE "Up",
     value |-> 0]
RotateEvent(dial, delta) ==
    [control |-> <<"Dial", dial>>, kind |-> "Rotate", value |-> delta]
TapEvent(x) == [control |-> <<"TouchStrip", 0>>, kind |-> "Tap", value |-> x]
DragEvent(dx) ==
    [control |-> <<"TouchStrip", 0>>, kind |-> "Drag", value |-> dx]

\* report.get(k).copied().unwrap_or(0), k counted from 0.
GetOr0(report, k) == IF k + 1 <= Len(report) THEN report[k + 1] ELSE 0

\* Lines 323-334: the loop over the four dial bytes, from dial i on.
RECURSIVE DialEventsFrom(_, _, _)
DialEventsFrom(report, last, i) ==
    IF i >= DIALS THEN <<>>
    ELSE LET now == GetOr0(report, 1 + PLUS_KEYS + i) # 0
         IN  IF last[i + 1] = now
             THEN DialEventsFrom(report, last, i + 1)
             ELSE <<DialEvent(i, now)>> \o DialEventsFrom(report, last, i + 1)

\* Mutant of PlusEvents: a rotation of zero is reported too.
PlusEventsRotateZero(report, last) ==
    IF Len(report) = 0 THEN <<>>
    ELSE CASE report[1] = 1 ->
                 IF Len(report) < 1 + PLUS_KEYS + DIALS THEN <<>>
                 ELSE DialEventsFrom(report, last, 0)
           [] report[1] = 3 /\ Len(report) >= 3 ->
                 <<RotateEvent(Min(report[2], 3), Signed8(report[3]))>>
           [] report[1] = 4 /\ Len(report) >= 3 ->
                 <<TapEvent(U16le(report[2], report[3]))>>
           [] report[1] = 5 /\ Len(report) >= 3 ->
                 IF I16le(report[2], report[3]) # 0
                 THEN <<DragEvent(I16le(report[2], report[3]))>>
                 ELSE <<>>
           [] OTHER -> <<>>

\* Mutant of PlusEvents: the drag delta is read as an unsigned value.
PlusEventsDragUnsigned(report, last) ==
    IF Len(report) = 0 THEN <<>>
    ELSE CASE report[1] = 1 ->
                 IF Len(report) < 1 + PLUS_KEYS + DIALS THEN <<>>
                 ELSE DialEventsFrom(report, last, 0)
           [] report[1] = 3 /\ Len(report) >= 3 ->
                 IF Signed8(report[3]) # 0
                 THEN <<RotateEvent(Min(report[2], 3), Signed8(report[3]))>>
                 ELSE <<>>
           [] report[1] = 4 /\ Len(report) >= 3 ->
                 <<TapEvent(U16le(report[2], report[3]))>>
           [] report[1] = 5 /\ Len(report) >= 3 ->
                 IF U16le(report[2], report[3]) # 0
                 THEN <<DragEvent(U16le(report[2], report[3]))>>
                 ELSE <<>>
           [] OTHER -> <<>>

\* Mutant of PlusEvents: the dial index is not clamped.
PlusEventsNoClamp(report, last) ==
    IF Len(report) = 0 THEN <<>>
    ELSE CASE report[1] = 1 ->
                 IF Len(report) < 1 + PLUS_KEYS + DIALS THEN <<>>
                 ELSE DialEventsFrom(report, last, 0)
           [] report[1] = 3 /\ Len(report) >= 3 ->
                 IF Signed8(report[3]) # 0
                 THEN <<RotateEvent(report[2], Signed8(report[3]))>>
                 ELSE <<>>
           [] report[1] = 4 /\ Len(report) >= 3 ->
                 <<TapEvent(U16le(report[2], report[3]))>>
           [] report[1] = 5 /\ Len(report) >= 3 ->
                 IF I16le(report[2], report[3]) # 0
                 THEN <<DragEvent(I16le(report[2], report[3]))>>
                 ELSE <<>>
           [] OTHER -> <<>>

\* The events that emit_plus_events hands to the channel for a report, in
\* order, given the dial snapshot it starts with.
PlusEvents(report, last) ==
    IF Len(report) = 0 THEN <<>>
    ELSE CASE report[1] = 1 ->
                 IF Len(report) < 1 + PLUS_KEYS + DIALS THEN <<>>
                 ELSE DialEventsFrom(report, last, 0)
           [] report[1] = 3 /\ Len(report) >= 3 ->
                 IF Signed8(report[3]) # 0
                 THEN <<RotateEvent(Min(report[2], 3), Signed8(report[3]))>>
                 ELSE <<>>
           [] report[1] = 4 /\ Len(report) >= 3 ->
                 <<TapEvent(U16le(report[2], report[3]))>>
           [] report[1] = 5 /\ Len(report) >= 3 ->
                 IF I16le(report[2], report[3]) # 0
                 THEN <<DragEvent(I16le(report[2], report[3]))>>
                 ELSE <<>>
           [] OTHER -> <<>>

\* Line 328: last_dials_down[i] = now, for a dial Down or Up event.
DialsAfter(last, ev) ==
    IF ev.control[1] = "Dial" /\ ev.kind \in {"Down", "Up"}
    THEN [last EXCEPT ![ev.control[2] + 1] = (ev.kind = "Down")]
    ELSE last

\* An event of emit_plus_events with the number of the read it came from.
TaggedPlus(ev, rep) ==
    [control |-> ev.control, kind |-> ev.kind, value |-> ev.value,
     rep |-> rep]

\* Reports an enhanced or a plain device may send: key states with and
\* without the four dial bytes, rotations, taps, drags, and shapes that
\* are not recognized.
KeyReport(S, dials) ==
    <<KeyStateReportId>> \o [i \in 1..PLUS_KEYS |-> IF (i - 1) \in S THEN 1 ELSE 0]
        \o dials

InputReports ==
    {KeyReport({}, <<>>), KeyReport({0}, <<>>), KeyReport({7}, <<>>),
     KeyReport({}, <<1, 0, 0, 0>>), KeyReport({}, <<0, 0, 0, 0>>),
     KeyReport({0}, <<0, 0, 0, 2>>),
     <<1, 1>>,
     <<3, 1, 1>>, <<3, 7, 255>>, <<3, 0, 128>>, <<3, 2, 0>>, <<3, 1>>,
     <<4, 0, 0>>, <<4, 44, 1>>, <<4, 255, 255>>, <<4, 7>>,
     <<5, 0, 0>>, <<5, 1, 0>>, <<5, 255, 255>>, <<5, 0, 128>>,
     <<2, 1, 1>>}

(***************************************************************************)
(* Initial state: connect() has returned and the worker has opened both    *)
(* paths (lines 163-205).                                                  *)
(***************************************************************************)
Init ==
    /\ pc = "check"
    /\ term = "none"
    /\ cmdq = <<>>
    /\ cur = NoCmd
    /\ page = 0
    /\ devlog = <<>>
    /\ cstat = [i \in 1..MaxOps |-> "unissued"]
    /\ nextId = 1
    /\ handles = Handles
    /\ rxAlive = TRUE
    /\ events = <<>>
    /\ received = <<>>
    /\ decoded = <<>>
    /\ last_keys = [i \in 1..KeyCount |-> FALSE]
    /\ current = <<>>
    /\ emit_k = 0
    /\ nreads = 0
    /\ mark = 0
    /\ hid = SessionHid
    /\ listed = Listed(list_devices(SessionHid))
    /\ conn = Connected("ok", Resolved(SessionHid, DeviceIdOf(Mini)))
    /\ codec = NoCall
    /\ sessions = <<>>
    /\ last_dials_down = [i \in 1..4 |-> FALSE]
    /\ pending = <<>>
    /\ buf = <<>>

(***************************************************************************)
(* The worker: run_stream_deck_thread.                                     *)
(***************************************************************************)

\* What the caller of command id sees next when the worker would show it
\* status st: nothing, if it has dropped its reply receiver.
Seen(id, st) == IF cstat[id] = "cancelled" THEN "cancelled" ELSE st

\* The worker returns: cmd_rx and event_tx are dropped. Commands still in
\* the queue are dropped with cmd_rx, so their reply senders are dropped and
\* their callers' rx.await fails ("device thread stopped").
Return(reason) ==
    /\ pc' = "done"
    /\ term' = reason
    /\ cstat' = [i \in 1..MaxOps |->
                    IF /\ \E k \in 1..Len(cmdq) : cmdq[k].id = i
                       /\ cstat[i] = "queued"
                    THEN "stopped" ELSE cstat[i]]
    /\ cmdq' = <<>>

\* Mutant of IdleCheck: one abandoned channel is enough to return.
IdleCheckEither ==
    /\ pc = "check"
    /\ IF EventTxClosed \/ CmdRxClosed
       THEN Return("idle")
       ELSE pc' = "drain" /\ UNCHANGED <<term, cstat, cmdq>>
    /\ UNCHANGED <<cur, page, devlog, nextId, handles, rxAlive, events,
                   received, decoded, last_keys, current, emit_k, nreads, mark>>
    /\ UNCHANGED svcVars

\* Lines 209-211: the idle-exit check.
IdleCheck ==
    /\ pc = "check"
    /\ IF EventTxClosed /\ CmdRxClosed
       THEN Return("idle")
       ELSE pc' = "drain" /\ UNCHANGED <<term, cstat, cmdq>>
    /\ UNCHANGED <<cur, page, devlog, nextId, handles, rxAlive, events,
                   received, decoded, last_keys, current, emit_k, nreads, mark>>
    /\ UNCHANGED svcVars

\* Mutant of TakeCommand: a command whose reply receiver is gone is taken
\* from the queue and thrown away.
TakeCommandSkipCancelled ==
    /\ pc = "drain"
    /\ cmdq # <<>>
    /\ cmdq' = RestCmd(cmdq)
    /\ IF cstat[TryRecvCmd(cmdq).id] = "cancelled"
       THEN UNCHANGED <<cur, page, cstat, pc>>
       ELSE /\ cur' = TryRecvCmd(cmdq)
            /\ page' = 0
            /\ cstat' = [cstat EXCEPT ![TryRecvCmd(cmdq).id] = "running"]
            /\ pc' = "exec"
    /\ UNCHANGED <<term, devlog, nextId, handles, rxAlive, events, received,
                   decoded, last_keys, current, emit_k, nreads, mark>>
    /\ UNCHANGED svcVars

\* Line 214: cmd_rx.try_recv() returns a command.
TakeCommand ==
    /\ pc = "drain"
    /\ cmdq # <<>>
    /\ cur' = TryRecvCmd(cmdq)
    /\ cmdq' = RestCmd(cmdq)
    /\ page' = 0
    /\ cstat' = [cstat EXCEPT ![TryRecvCmd(cmdq).id] =
                                 Seen(TryRecvCmd(cmdq).id, "running")]
    /\ pc' = "exec"
    /\ UNCHANGED <<term, devlog, nextId, handles, rxAlive, events, received,
                   decoded, last_keys, current, emit_k, nreads, mark>>
    /\ UNCHANGED svcVars

\* Line 214: try_recv finds the queue empty and the while loop ends.
DrainEnd ==
    /\ pc = "drain"
    /\ cmdq = <<>>
    /\ pc' = "read"
    /\ UNCHANGED <<term, cmdq, cur, page, devlog, cstat, nextId, handles,
                   rxAlive, events, received, decoded, last_keys, current,
                   emit_k, nreads, mark>>
    /\ UNCHANGED svcVars

\* Mutant of Reply: only a success is sent as a reply; on a failure the
\* reply sender is left unused.
ReplyOnlyOnSuccess(ok) ==
    /\ devlog' = IF ok
                 THEN Append(devlog, [op |-> "reply", id |-> cur.id, ok |-> ok])
                 ELSE devlog
    /\ cstat' = [cstat EXCEPT ![cur.id] =
                                 Seen(cur.id, IF ok THEN "ok" ELSE "err")]
    /\ cur' = NoCmd
    /\ page' = 0
    /\ pc' = "drain"

\* The reply of the command being executed: resp.send(r), then the next
\* try_recv.
Reply(ok) ==
    /\ devlog' = Append(devlog, [op |-> "reply", id |-> cur.id, ok |-> ok])
    /\ cstat' = [cstat EXCEPT ![cur.id] =
                                 Seen(cur.id, IF ok THEN "ok" ELSE "err")]
    /\ cur' = NoCmd
    /\ page' = 0
    /\ pc' = "drain"

\* Mutant of WriteOk: after each report the worker goes on to poll the input
\* and leaves the rest of the command for later.
WriteOkThenPoll ==
    /\ pc = "exec"
    /\ page < NumWrites(cur)
    /\ devlog' = Append(devlog, DeviceOp(cur, page))
    /\ page' = page + 1
    /\ pc' = "read"
    /\ UNCHANGED <<term, cmdq, cur, cstat, nextId, handles, rxAlive,
                   events, received, decoded, last_keys, current, emit_k,
                   nreads, mark>>
    /\ UNCHANGED svcVars

\* One device operation of the command being executed succeeds
\* (send_feature_report of set_brightness_v1, or dev.write of one chunk of
\* set_key_image_v1_jpeg).
WriteOk ==
    /\ pc = "exec"
    /\ page < NumWrites(cur)
    /\ devlog' = Append(devlog, DeviceOp(cur, page))
    /\ page' = page + 1
    /\ UNCHANGED <<pc, term, cmdq, cur, cstat, nextId, handles, rxAlive,
                   events, received, decoded, last_keys, current, emit_k,
                   nreads, mark>>
    /\ UNCHANGED svcVars

\* Mutant of WriteErr: a failed write is taken for the loss of the device.
WriteErrDisconnects ==
    /\ pc = "exec"
    /\ page < NumWrites(cur)
    /\ devlog' = Append(devlog, [op |-> "reply", id |-> cur.id, ok |-> FALSE])
    /\ cstat' = [cstat EXCEPT ![cur.id] = Seen(cur.id, "err")]
    /\ cur' = NoCmd
    /\ page' = 0
    /\ pc' = "disc"
    /\ UNCHANGED <<term, cmdq, nextId, handles, rxAlive, events, received,
                   decoded, last_keys, current, emit_k, nreads, mark>>
    /\ UNCHANGED svcVars

\* The device operation fails: `?` returns the error, which is the reply.
WriteErr ==
    /\ pc = "exec"
    /\ page < NumWrites(cur)
    /\ Reply(FALSE)
    /\ UNCHANGED <<term, cmdq, nextId, handles, rxAlive, events, received,
                   decoded, last_keys, current, emit_k, nreads, mark>>
    /\ UNCHANGED svcVars

\* All device operations of the command are done: Ok(()) is the reply.
Finish ==
    /\ pc = "exec"
    /\ page >= NumWrites(cur)
    /\ Reply(TRUE)
    /\ UNCHANGED <<term, cmdq, nextId, handles, rxAlive, events, received,
                   decoded, last_keys, current, emit_k, nreads, mark>>
    /\ UNCHANGED svcVars

\* Line 251: read_timeout returns Ok(0).
ReadTimeout ==
    /\ pc = "read"
    /\ pc' = "check"
    /\ UNCHANGED <<term, cmdq, cur, page, devlog, cstat, nextId, handles,
                   rxAlive, events, received, decoded, last_keys, current,
                   emit_k, nreads, mark>>
    /\ UNCHANGED svcVars

\* Lines 243-250: read_timeout returns a report. A valid key-state report
\* goes to emit_key_events; any other is ignored (is_plus is false).
ReadReport(report) ==
    /\ pc = "read"
    /\ OpsLeft
    /\ nreads' = nreads + 1
    /\ LET parsed == parse_key_states_v1(report, KeyCount)
       IN  IF parsed.ok
           THEN /\ current' = parsed.states
                /\ emit_k' = 0
                /\ mark' = nextId - 1
                /\ pc' = "emit"
           ELSE /\ pc' = "check"
                /\ UNCHANGED <<current, emit_k, mark>>
    /\ UNCHANGED <<term, cmdq, cur, page, devlog, cstat, nextId, handles,
                   rxAlive, events, received, decoded, last_keys>>
    /\ UNCHANGED svcVars

\* Lines 264-279: the next changed key of emit_key_events; blocking_send of
\* its event returns.
EmitSend ==
    /\ pc = "emit"
    /\ emit_k < Len(KeyEvents(last_keys, current))
    /\ SendReturns
    /\ LET ev == Tagged(KeyEvents(last_keys, current)[emit_k + 1], nreads)
       IN  /\ events' = AfterSend(ev)
           /\ decoded' = Append(decoded, ev)
    /\ emit_k' = emit_k + 1
    /\ UNCHANGED <<pc, term, cmdq, cur, page, devlog, cstat, nextId, handles,
                   rxAlive, received, last_keys, current, nreads, mark>>
    /\ UNCHANGED svcVars

\* Mutant of EmitDone: the snapshot is not overwritten.
EmitDoneNoCopy ==
    /\ pc = "emit"
    /\ emit_k >= Len(KeyEvents(last_keys, current))
    /\ emit_k' = 0
    /\ mark' = 0
    /\ pc' = "check"
    /\ UNCHANGED <<term, cmdq, cur, page, devlog, cstat, nextId, handles,
                   rxAlive, events, received, decoded, last_keys, current,
                   nreads>>
    /\ UNCHANGED svcVars

\* Line 280: last.copy_from_slice(current), then the sleep and the next
\* iteration.
EmitDone ==
    /\ pc = "emit"
    /\ emit_k >= Len(KeyEvents(last_keys, current))
    /\ last_keys' = current
    /\ emit_k' = 0
    /\ mark' = 0
    /\ pc' = "check"
    /\ UNCHANGED <<term, cmdq, cur, page, devlog, cstat, nextId, handles,
                   rxAlive, events, received, decoded, current, nreads>>
    /\ UNCHANGED svcVars

\* Line 252: read_timeout returns an error.
ReadError ==
    /\ pc = "read"
    /\ pc' = "disc"
    /\ mark' = nextId - 1
    /\ UNCHANGED <<term, cmdq, cur, page, devlog, cstat, nextId, handles,
                   rxAlive, events, received, decoded, last_keys, current,
                   emit_k, nreads>>
    /\ UNCHANGED svcVars

\* Lines 254-255: blocking_send(Disconnected) returns and the worker returns.
SendDisconnected ==
    /\ pc = "disc"
    /\ SendReturns
    /\ LET ev == Tagged(Disconnected, nreads + 1)
       IN  /\ events' = AfterSend(ev)
           /\ decoded' = Append(decoded, ev)
    /\ Return("read_error")
    /\ mark' = 0
    /\ UNCHANGED <<cur, page, devlog, nextId, handles, rxAlive, received,
                   last_keys, current, emit_k, nreads>>
    /\ UNCHANGED svcVars

Worker ==
    \/ IdleCheck
    \/ TakeCommand
    \/ DrainEnd
    \/ WriteOk
    \/ WriteErr
    \/ Finish
    \/ ReadTimeout
    \/ \E report \in Reports : ReadReport(report)
    \/ EmitSend
    \/ EmitDone
    \/ ReadError
    \/ SendDisconnected

(***************************************************************************)
(* The consumer of the session record and the callers of the handles.      *)
(***************************************************************************)

\* Mutant of Issue: the send succeeds also when the worker has returned.
IssueNoClosedCheck(h, input) ==
    /\ h \in handles
    /\ OpsLeft
    /\ Len(cmdq) < CmdCap
    /\ cmdq' = Append(cmdq, [id |-> nextId, kind |-> input.kind,
                             arg |-> input.arg, jpeg_len |-> input.jpeg_len])
    /\ cstat' = [cstat EXCEPT ![nextId] = "queued"]
    /\ nextId' = nextId + 1
    /\ UNCHANGED <<pc, term, cur, page, devlog, handles, rxAlive, events,
                   received, decoded, last_keys, current, emit_k, nreads, mark>>
    /\ UNCHANGED svcVars

\* A handle operation (lines 443-489) on handle h: cmd_tx.send(..).await.
\* With the worker gone the send fails; with the queue full it waits.
Issue(h, input) ==
    /\ h \in handles
    /\ OpsLeft
    /\ IF pc = "done"
       THEN /\ cstat' = [cstat EXCEPT ![nextId] = "rejected"]
            /\ UNCHANGED cmdq
       ELSE /\ Len(cmdq) < CmdCap
            /\ cmdq' = Append(cmdq, [id |-> nextId, kind |-> input.kind,
                                     arg |-> input.arg,
                                     jpeg_len |-> input.jpeg_len])
            /\ cstat' = [cstat EXCEPT ![nextId] = "queued"]
    /\ nextId' = nextId + 1
    /\ UNCHANGED <<pc, term, cur, page, devlog, handles, rxAlive, events,
                   received, decoded, last_keys, current, emit_k, nreads, mark>>
    /\ UNCHANGED svcVars

\* A call is in flight: its command is queued or being executed, and its
\* caller still awaits the reply.
InFlight ==
    \/ cur.id # 0 /\ cstat[cur.id] # "cancelled"
    \/ \E k \in 1..Len(cmdq) : cstat[cmdq[k].id] # "cancelled"

\* A handle clone is dropped. A call in flight borrows the handle it was made
\* through, so that handle cannot be dropped; the clones being
\* interchangeable, the model keeps one of them alive while a call is in
\* flight rather than recording which one made it.
DropHandle(h) ==
    /\ h \in handles
    /\ InFlight => handles \ {h} # {}
    /\ handles' = handles \ {h}
    /\ UNCHANGED <<pc, term, cmdq, cur, page, devlog, cstat, nextId, rxAlive,
                   events, received, decoded, last_keys, current, emit_k,
                   nreads, mark>>
    /\ UNCHANGED svcVars

\* The consumer takes the next event from event_rx.
RecvEvent ==
    /\ rxAlive
    /\ events # <<>>
    /\ received' = Append(received, Head(events))
    /\ events' = Tail(events)
    /\ UNCHANGED <<pc, term, cmdq, cur, page, devlog, cstat, nextId, handles,
                   rxAlive, decoded, last_keys, current, emit_k, nreads, mark>>
    /\ UNCHANGED svcVars

\* The consumer drops event_rx; buffered events are dropped with it.
DropEventRx ==
    /\ rxAlive
    /\ rxAlive' = FALSE
    /\ events' = <<>>
    /\ UNCHANGED <<pc, term, cmdq, cur, page, devlog, cstat, nextId, handles,
                   received, decoded, last_keys, current, emit_k, nreads, mark>>
    /\ UNCHANGED svcVars

Environment ==
    \/ \E h \in Handles, input \in CommandInputs : Issue(h, input)
    \/ \E h \in Handles : DropHandle(h)
    \/ RecvEvent
    \/ DropEventRx

Next == Worker \/ Environment

Spec == Init /\ [][Next]_vars

\* The caller of command id drops the future of its handle operation while
\* it awaits the reply (line 450, 462, 475, 487): the reply receiver is
\* dropped with it, the command stays where it is.
CancelCall(id) ==
    /\ cstat[id] \in {"queued", "running"}
    /\ cstat' = [cstat EXCEPT ![id] = "cancelled"]
    /\ UNCHANGED <<pc, term, cmdq, cur, page, devlog, nextId, handles,
                   rxAlive, events, received, decoded, last_keys, current,
                   emit_k, nreads, mark>>
    /\ UNCHANGED svcVars

\* The session with callers that may abandon their calls, on a device
\* that sends no input report.
NextCancel ==
    \/ IdleCheck
    \/ TakeCommand
    \/ DrainEnd
    \/ WriteOk
    \/ WriteErr
    \/ Finish
    \/ ReadTimeout
    \/ ReadError
    \/ SendDisconnected
    \/ \E h \in Handles, input \in CommandInputs : Issue(h, input)
    \/ \E id \in 1..MaxOps : CancelCall(id)
    \/ \E h \in Handles : DropHandle(h)
    \/ RecvEvent
    \/ DropEventRx

CancelSpec == Init /\ [][NextCancel]_vars

(***************************************************************************)
(* The service: list_devices, connect, and the set-up of the worker        *)
(* (lines 72-205), up to the first iteration of its loop.                  *)
(***************************************************************************)

\* No session exists: no thread, no channel, no handle.
NoSession ==
    /\ pc = "none"
    /\ term = "none"
    /\ cmdq = <<>>
    /\ cur = NoCmd
    /\ page = 0
    /\ devlog = <<>>
    /\ cstat = [i \in 1..MaxOps |-> "unissued"]
    /\ nextId = 1
    /\ handles = {}
    /\ rxAlive = FALSE
    /\ events = <<>>
    /\ received = <<>>
    /\ decoded = <<>>
    /\ last_keys = <<>>
    /\ current = <<>>
    /\ emit_k = 0
    /\ nreads = 0
    /\ mark = 0
    /\ sessions = <<>>
    /\ last_dials_down = <<>>
    /\ pending = <<>>
    /\ buf = <<>>

InitConnect ==
    /\ NoSession
    /\ hid \in Enumerations
    /\ listed = NotListed
    /\ conn = NoConnect
    /\ codec = NoCall

\* list_devices (lines 72-103).
ListDevices ==
    /\ conn.st = "idle"
    /\ ~listed.done
    /\ listed' = Listed(list_devices(hid))
    /\ UNCHANGED <<hid, conn, codec>>
    /\ UNCHANGED auxVars
    /\ UNCHANGED sessVars

\* connect(id) (lines 105-183), called after the devices were listed. With
\* no candidate it bails out (line 126). Otherwise it creates the channels;
\* then HidContext::new() fails and the channels are dropped with the error
\* (line 166), or the worker thread is spawned and the session record is
\* returned (lines 168-182).
Connect(id) ==
    /\ listed.done
    /\ conn.st = "idle"
    /\ IF Candidates(hid, id) = <<>>
       THEN /\ conn' = Failed("not_found", id)
            /\ UNCHANGED <<pc, handles, rxAlive>>
       ELSE \/ /\ conn' = Failed("error", id)
               /\ UNCHANGED <<pc, handles, rxAlive>>
            \/ /\ conn' = Connected("ok", Resolved(hid, id))
               /\ pc' = "open_read"
               /\ handles' = Handles
               /\ rxAlive' = TRUE
    /\ UNCHANGED <<term, cmdq, cur, page, devlog, cstat, nextId, events,
                   received, decoded, last_keys, current, emit_k, nreads, mark>>
    /\ UNCHANGED <<hid, listed, codec>>
    /\ UNCHANGED auxVars

\* Line 195: ctx.open_path(&read_path) succeeds.
OpenReadOk ==
    /\ pc = "open_read"
    /\ pc' = "open_write"
    /\ UNCHANGED <<term, cmdq, cur, page, devlog, cstat, nextId, handles,
                   rxAlive, events, received, decoded, last_keys, current,
                   emit_k, nreads, mark>>
    /\ UNCHANGED svcVars

\* Line 195: ctx.open_path(&read_path) fails and `?` returns the error from
\* run_stream_deck_thread; the closure of line 168 logs it.
OpenReadErr ==
    /\ pc = "open_read"
    /\ Return("open_read_failed")
    /\ UNCHANGED <<cur, page, devlog, nextId, handles, rxAlive, events,
                   received, decoded, last_keys, current, emit_k, nreads, mark>>
    /\ UNCHANGED svcVars

\* Line 196: ctx.open_path(&write_path) succeeds.
OpenWriteOk ==
    /\ pc = "open_write"
    /\ pc' = "set_blocking_mode"
    /\ UNCHANGED <<term, cmdq, cur, page, devlog, cstat, nextId, handles,
                   rxAlive, events, received, decoded, last_keys, current,
                   emit_k, nreads, mark>>
    /\ UNCHANGED svcVars

\* Line 196: ctx.open_path(&write_path) fails.
OpenWriteErr ==
    /\ pc = "open_write"
    /\ Return("open_write_failed")
    /\ UNCHANGED <<cur, page, devlog, nextId, handles, rxAlive, events,
                   received, decoded, last_keys, current, emit_k, nreads, mark>>
    /\ UNCHANGED svcVars

\* Lines 199-205: set_blocking_mode succeeds, the snapshots are allocated
\* and the loop begins.
SetBlockingModeOk ==
    /\ pc = "set_blocking_mode"
    /\ last_keys' = [i \in 1..conn.key_count |-> FALSE]
    /\ pc' = "check"
    /\ UNCHANGED <<term, cmdq, cur, page, devlog, cstat, nextId, handles,
                   rxAlive, events, received, decoded, current, emit_k,
                   nreads, mark>>
    /\ last_dials_down' = [i \in 1..4 |-> FALSE]
    /\ UNCHANGED <<hid, listed, conn, codec, sessions, pending, buf>>

\* Line 199: set_blocking_mode fails.
SetBlockingModeErr ==
    /\ pc = "set_blocking_mode"
    /\ Return("set_blocking_mode_failed")
    /\ UNCHANGED <<cur, page, devlog, nextId, handles, rxAlive, events,
                   received, decoded, last_keys, current, emit_k, nreads, mark>>
    /\ UNCHANGED svcVars

NextConnect ==
    \/ ListDevices
    \/ \E id \in ConnectIds : Connect(id)
    \/ OpenReadOk
    \/ OpenReadErr
    \/ OpenWriteOk
    \/ OpenWriteErr
    \/ SetBlockingModeOk
    \/ SetBlockingModeErr

ConnectSpec == InitConnect /\ [][NextConnect]_vars

(***************************************************************************)
(* Repeated connect calls (lines 105-199): every call that finds its       *)
(* candidates spawns a worker thread of its own, which opens the paths     *)
(* with a HidContext of its own.  A session is the id it was connected to  *)
(* and the position of its worker: "open" (lines 195-199), "loop" (between *)
(* device calls), "io" (inside read_timeout, write or                      *)
(* send_feature_report), "done".                                           *)
(***************************************************************************)
InitMulti ==
    /\ NoSession
    /\ hid \in {SessionHid, PlusHid, BothHid}
    /\ listed = NotListed
    /\ conn = NoConnect
    /\ codec = NoCall

SetSession(k, st) == sessions' = [sessions EXCEPT ![k].pc = st]

\* connect(id) returns Ok: lines 163-182.
SpawnSession(id) ==
    /\ Len(sessions) < MaxSessions
    /\ Candidates(hid, id) # <<>>
    /\ sessions' = Append(sessions, [id |-> id, pc |-> "open"])
    /\ UNCHANGED <<hid, listed, conn, codec, last_dials_down, pending, buf>>
    /\ UNCHANGED sessVars

\* Lines 195-199 succeed in worker k. hidapi opens a path that another
\* handle has open already (hidraw nodes are not exclusive).
SessionOpenOk(k) ==
    /\ k <= Len(sessions)
    /\ sessions[k].pc = "open"
    /\ SetSession(k, "loop")
    /\ UNCHANGED <<hid, listed, conn, codec, last_dials_down, pending, buf>>
    /\ UNCHANGED sessVars

\* Lines 195-199 fail in worker k (the platform may refuse the open).
SessionOpenErr(k) ==
    /\ k <= Len(sessions)
    /\ sessions[k].pc = "open"
    /\ SetSession(k, "done")
    /\ UNCHANGED <<hid, listed, conn, codec, last_dials_down, pending, buf>>
    /\ UNCHANGED sessVars

\* Worker k enters a device call: read_timeout (line 242), write (line 407)
\* or send_feature_report (line 375).
SessionBeginIo(k) ==
    /\ k <= Len(sessions)
    /\ sessions[k].pc = "loop"
    /\ SetSession(k, "io")
    /\ UNCHANGED <<hid, listed, conn, codec, last_dials_down, pending, buf>>
    /\ UNCHANGED sessVars

\* The device call of worker k returns.
SessionEndIo(k) ==
    /\ k <= Len(sessions)
    /\ sessions[k].pc = "io"
    /\ SetSession(k, "loop")
    /\ UNCHANGED <<hid, listed, conn, codec, last_dials_down, pending, buf>>
    /\ UNCHANGED sessVars

\* read_timeout of worker k returns an error and the worker returns
\* (lines 252-256).
SessionIoErr(k) ==
    /\ k <= Len(sessions)
    /\ sessions[k].pc = "io"
    /\ SetSession(k, "done")
    /\ UNCHANGED <<hid, listed, conn, codec, last_dials_down, pending, buf>>
    /\ UNCHANGED sessVars

NextMulti ==
    \/ \E id \in ConnectIds : SpawnSession(id)
    \/ \E k \in 1..MaxSessions : SessionOpenOk(k)
    \/ \E k \in 1..MaxSessions : SessionOpenErr(k)
    \/ \E k \in 1..MaxSessions : SessionBeginIo(k)
    \/ \E k \in 1..MaxSessions : SessionEndIo(k)
    \/ \E k \in 1..MaxSessions : SessionIoErr(k)

MultiSpec == InitMulti /\ [][NextMulti]_vars

(***************************************************************************)
(* A session of each kind of device, from the return of connect() on       *)
(* (lines 176-182, 195-239): the worker opens the paths and executes       *)
(* image commands; the device sends no report.                             *)
(***************************************************************************)
InitKind ==
    /\ hid \in KindEnumerations
    /\ listed = Listed(list_devices(hid))
    /\ conn = Connected("ok", Resolved(hid, DeviceIdOf(hid[1])))
    /\ codec = NoCall
    /\ sessions = <<>>
    /\ pc = "open_read"
    /\ term = "none"
    /\ cmdq = <<>>
    /\ cur = NoCmd
    /\ page = 0
    /\ devlog = <<>>
    /\ cstat = [i \in 1..MaxOps |-> "unissued"]
    /\ nextId = 1
    /\ handles = Handles
    /\ rxAlive = TRUE
    /\ events = <<>>
    /\ received = <<>>
    /\ decoded = <<>>
    /\ last_keys = <<>>
    /\ last_dials_down = <<>>
    /\ current = <<>>
    /\ emit_k = 0
    /\ nreads = 0
    /\ mark = 0
    /\ pending = <<>>
    /\ buf = <<>>

\* Image commands: a key, dials (one with an index beyond the dials) and
\* the touch strip, each with a buffer that is written.
ImageCommands ==
    {[kind |-> "SetKeyImageJpeg", arg |-> 0, jpeg_len |-> 1],
     [kind |-> "SetDialImageJpeg", arg |-> 1, jpeg_len |-> 1017],
     [kind |-> "SetDialImageJpeg", arg |-> 7, jpeg_len |-> 1],
     [kind |-> "SetTouchStripImageJpeg", arg |-> 0, jpeg_len |-> 1]}

NextKind ==
    \/ OpenReadOk
    \/ OpenWriteOk
    \/ SetBlockingModeOk
    \/ IdleCheck
    \/ TakeCommand
    \/ DrainEnd
    \/ WriteOk
    \/ WriteErr
    \/ Finish
    \/ ReadTimeout
    \/ \E h \in Handles, input \in ImageCommands : Issue(h, input)

KindSpec == InitKind /\ [][NextKind]_vars

(***************************************************************************)
(* The input side of a session, of a Mini or of a Stream Deck +            *)
(* (lines 203-259): the worker reads reports and emits their events; no    *)
(* command is issued and no read fails, so a read that brings no report is *)
(* a timeout.                                                              *)
(***************************************************************************)
InitDecode ==
    /\ hid \in {SessionHid, PlusHid}
    /\ listed = Listed(list_devices(hid))
    /\ conn = Connected("ok", Resolved(hid, DeviceIdOf(hid[1])))
    /\ codec = NoCall
    /\ sessions = <<>>
    /\ pc = "check"
    /\ term = "none"
    /\ cmdq = <<>>
    /\ cur = NoCmd
    /\ page = 0
    /\ devlog = <<>>
    /\ cstat = [i \in 1..MaxOps |-> "unissued"]
    /\ nextId = 1
    /\ handles = Handles
    /\ rxAlive = TRUE
    /\ events = <<>>
    /\ received = <<>>
    /\ decoded = <<>>
    /\ last_keys = [i \in 1..conn.key_count |-> FALSE]
    /\ last_dials_down = [i \in 1..DIALS |-> FALSE]
    /\ current = <<>>
    /\ emit_k = 0
    /\ nreads = 0
    /\ mark = 0
    /\ pending = <<>>
    /\ buf = <<>>

\* Mutant of ReadInput: a report that is not a valid key-state report is
\* taken for a read error.
ReadInputStrict(report) ==
    /\ pc = "read"
    /\ nreads < MaxReads
    /\ nreads' = nreads + 1
    /\ buf' = report
    /\ LET parsed == parse_key_states_v1(report, conn.key_count)
       IN  IF parsed.ok
           THEN /\ current' = parsed.states
                /\ emit_k' = 0
                /\ pc' = "emit"
                /\ UNCHANGED pending
           ELSE IF conn.is_plus
                THEN /\ pending' = PlusEvents(report, last_dials_down)
                     /\ emit_k' = 0
                     /\ pc' = "emit_plus"
                     /\ UNCHANGED current
                ELSE /\ pc' = "disc"
                     /\ UNCHANGED <<current, emit_k, pending>>
    /\ UNCHANGED <<term, cmdq, cur, page, devlog, cstat, nextId, handles,
                   rxAlive, events, received, decoded, last_keys, mark>>
    /\ UNCHANGED <<hid, listed, conn, codec, sessions, last_dials_down>>

\* Lines 242-250: read_timeout returns n > 0 bytes. A valid key-state report
\* goes to emit_key_events; any other goes to emit_plus_events when is_plus
\* is set, and is ignored when it is not.
ReadInput(report) ==
    /\ pc = "read"
    /\ nreads < MaxReads
    /\ nreads' = nreads + 1
    /\ buf' = report
    /\ LET parsed == parse_key_states_v1(report, conn.key_count)
       IN  IF parsed.ok
           THEN /\ current' = parsed.states
                /\ emit_k' = 0
                /\ pc' = "emit"
                /\ UNCHANGED pending
           ELSE IF conn.is_plus
                THEN /\ pending' = PlusEvents(report, last_dials_down)
                     /\ emit_k' = 0
                     /\ pc' = "emit_plus"
                     /\ UNCHANGED current
                ELSE /\ pc' = "check"
                     /\ UNCHANGED <<current, emit_k, pending>>
    /\ UNCHANGED <<term, cmdq, cur, page, devlog, cstat, nextId, handles,
                   rxAlive, events, received, decoded, last_keys, mark>>
    /\ UNCHANGED <<hid, listed, conn, codec, sessions, last_dials_down>>

\* The next event of emit_plus_events: the dial snapshot is updated for a
\* press or release (line 328) and blocking_send of the event returns.
EmitPlusSend ==
    /\ pc = "emit_plus"
    /\ emit_k < Len(pending)
    /\ SendReturns
    /\ LET ev == TaggedPlus(pending[emit_k + 1], nreads)
       IN  /\ events' = AfterSend(ev)
           /\ decoded' = Append(decoded, ev)
           /\ last_dials_down' = DialsAfter(last_dials_down, ev)
    /\ emit_k' = emit_k + 1
    /\ UNCHANGED <<pc, term, cmdq, cur, page, devlog, cstat, nextId, handles,
                   rxAlive, received, last_keys, current, nreads, mark>>
    /\ UNCHANGED <<hid, listed, conn, codec, sessions, pending, buf>>

\* emit_plus_events returns; the sleep and the next iteration.
EmitPlusDone ==
    /\ pc = "emit_plus"
    /\ emit_k >= Len(pending)
    /\ emit_k' = 0
    /\ pending' = <<>>
    /\ pc' = "check"
    /\ UNCHANGED <<term, cmdq, cur, page, devlog, cstat, nextId, handles,
                   rxAlive, events, received, decoded, last_keys, current,
                   nreads, mark>>
    /\ UNCHANGED <<hid, listed, conn, codec, sessions, last_dials_down, buf>>

NextDecode ==
    \/ IdleCheck
    \/ DrainEnd
    \/ ReadTimeout
    \/ \E report \in InputReports : ReadInput(report)
    \/ EmitSend
    \/ EmitDone
    \/ EmitPlusSend
    \/ EmitPlusDone
    \/ RecvEvent

DecodeSpec == InitDecode /\ [][NextDecode]_vars

(***************************************************************************)
(* The output encoders, called on their own.                               *)
(***************************************************************************)
InitCodec ==
    /\ NoSession
    /\ hid = <<>>
    /\ listed = NotListed
    /\ conn = NoConnect
    /\ codec = NoCall

\* set_brightness_v1(dev, percent): the report given to send_feature_report.
SendBrightness(percent) ==
    /\ codec.fn = "none"
    /\ codec' = [fn |-> "set_brightness_v1", arg |-> percent, jpeg |-> <<>>,
                 out |-> <<set_brightness_v1(percent)>>]
    /\ UNCHANGED <<hid, listed, conn>>
    /\ UNCHANGED auxVars
    /\ UNCHANGED sessVars

\* set_key_image_v1_jpeg(dev, key, jpeg): the reports given to dev.write.
WriteKeyImage(key, jpeg) ==
    /\ codec.fn = "none"
    /\ codec' = [fn |-> "set_key_image_v1_jpeg", arg |-> key, jpeg |-> jpeg,
                 out |-> set_key_image_v1_jpeg(key, jpeg)]
    /\ UNCHANGED <<hid, listed, conn>>
    /\ UNCHANGED auxVars
    /\ UNCHANGED sessVars

\* The key counts connect() can give a session (lines 151-161).
KeyCounts == {6, 8, 15, 32}

\* Byte k (from 0) of the report content numbered seed: all zero, all one,
\* 0 and 255 in turn, or 0, 1, 2 in turn.
PatternByte(seed, k) ==
    CASE seed = 0 -> 0
      [] seed = 1 -> 1
      [] seed = 2 -> IF k % 2 = 0 THEN 0 ELSE 255
      [] OTHER -> k % 3

\* Reports offered to the decoder for a key count: the empty report, and
\* for the first bytes 0, 1 and 3 the lengths around 1 + key_count.
ParseInputs(key_count) ==
    {<<>>} \cup
    {<<id>> \o [k \in 1..(n - 1) |-> PatternByte(seed, k)] :
        id \in {0, 1, 3},
        n \in {1, key_count, 1 + key_count, 2 + key_count, 5 + key_count},
        seed \in 0..3}

\* parse_key_states_v1(report, key_count): the Option it returns.
ParseKeyStates(report, key_count) ==
    /\ codec.fn = "none"
    /\ codec' = [fn |-> "parse_key_states_v1", arg |-> key_count,
                 report |-> report,
                 out |-> parse_key_states_v1(report, key_count)]
    /\ UNCHANGED <<hid, listed, conn>>
    /\ UNCHANGED auxVars
    /\ UNCHANGED sessVars

\* Interface numbers the transport hands on: None for a negative if_num,
\* Some(if_num) for any other i32 (transport-hid lib.rs line 27).
WideInterfaceNumbers ==
    {None, Some(0), Some(1), Some(255), Some(999), Some(1000)}

\* Enumerations of the interfaces of one Stream Deck Mini.
WideEnumerations ==
    UNION {[1..n -> {Descriptor(Mini, ifn) : ifn \in WideInterfaceNumbers}] :
              n \in 1..MaxHid}

\* candidates.sort_by_key(..) of connect(), for the candidates of h.
SortCandidates(h) ==
    /\ codec.fn = "none"
    /\ codec' = [fn |-> "sort_by_key", arg |-> Len(h),
                 candidates |-> Candidates(h, DeviceIdOf(Mini)),
                 out |-> sort_by_key(Candidates(h, DeviceIdOf(Mini)))]
    /\ UNCHANGED <<hid, listed, conn>>
    /\ UNCHANGED auxVars
    /\ UNCHANGED sessVars

\* Raw descriptors offered to the filter: Elgato's vendor id and two others,
\* the four known product ids and two unknown ones, and product strings
\* with and without the marker in several cases.
RawVendors == {ELGATO_VENDOR_ID, 1133, 0}
RawProducts == KNOWN_STREAMDECK_PRODUCT_IDS \cup {132, 0}
RawStrings ==
    {None, Some(""), Some("Stream Deck"), Some("STREAM DECK XL"),
     Some("Elgato stream deck +"), Some("StreamDeck"), Some("Wave 3")}
RawDescriptors ==
    {[vendor_id |-> v, product_id |-> p, product_string |-> str,
      serial_number |-> None, interface_number |-> None] :
        v \in RawVendors, p \in RawProducts, str \in RawStrings}

\* looks_like_stream_deck(d): the bool it returns.
Recognize(d) ==
    /\ codec.fn = "none"
    /\ codec' = [fn |-> "looks_like_stream_deck", arg |-> 0, d |-> d,
                 out |-> looks_like_stream_deck(d)]
    /\ UNCHANGED <<hid, listed, conn>>
    /\ UNCHANGED auxVars
    /\ UNCHANGED sessVars

(***************************************************************************)
(* actions::expand (crates/actions/src/lib.rs, lines 120-162).             *)
(* An ActionBinding is a record with the variant in field binding; a       *)
(* BuiltinAction is a record with the serde tag in field builtin; an       *)
(* ActionStep is a record with the variant in field step.                  *)
(***************************************************************************)
MAX_STEPS == 128

Macro(steps) ==
    [binding |-> "Builtin", bi |-> [builtin |-> "macro", steps |-> steps]]
MacroStep(action, delay_ms) == [action |-> action, delay_ms |-> delay_ms]

\* The comparison of lines 128 and 142.
AtLimitAbove(steps) == steps > MAX_STEPS
AtLimit(steps) == steps >= MAX_STEPS

\* ExpandError::MacroTooLarge(MAX_STEPS), as the state of a failed walk.
MacroTooLarge == [err |-> TRUE, limit |-> MAX_STEPS]

RECURSIVE push_binding(_, _)
RECURSIVE push_macro_steps(_, _)

\* push_binding(out, b, steps), lines 123-156: st holds out and steps, or
\* is the error returned.
push_binding(st, b) ==
    IF AtLimit(st.steps) THEN MacroTooLarge
    ELSE IF b.binding = "Plugin"
         THEN [err |-> FALSE,
               out |-> Append(st.out, [step |-> "Plugin", p |-> b.p]),
               steps |-> st.steps + 1]
    ELSE IF b.bi.builtin = "macro" THEN push_macro_steps(st, b.bi.steps)
    ELSE [err |-> FALSE,
          out |-> Append(st.out, [step |-> "Builtin", bi |-> b.bi]),
          steps |-> st.steps + 1]

\* The for loop of lines 138-147 over the remaining macro_steps.
push_macro_steps(st, macro_steps) ==
    IF macro_steps = <<>> THEN st
    ELSE LET s == Head(macro_steps)
             delayed ==
                 IF s.delay_ms # None
                 THEN [err |-> FALSE,
                       out |-> Append(st.out, [step |-> "DelayMs",
                                               ms |-> s.delay_ms[1]]),
                       steps |-> st.steps + 1]
                 ELSE st
         IN  IF s.delay_ms # None /\ AtLimit(delayed.steps)
             THEN MacroTooLarge
             ELSE LET pushed == push_binding(delayed, s.action)
                  IN  IF pushed.err THEN pushed
                      ELSE push_macro_steps(pushed, Tail(macro_steps))

\* expand(binding), lines 158-161: Ok(out) or Err(MacroTooLarge(..)).
expand(binding) ==
    LET walked == push_binding([err |-> FALSE, out |-> <<>>, steps |-> 0],
                               binding)
    IN  IF walked.err
        THEN [ok |-> FALSE, err |-> "MacroTooLarge", limit |-> walked.limit]
        ELSE [ok |-> TRUE, steps |-> walked.out]

\* Bindings that are no macro: a plugin action and a builtin action.
LeafBindings ==
    {[binding |-> "Plugin",
      p |-> [plugin_id |-> "com.example", action_id |-> "toggle"]],
     [binding |-> "Builtin",
      bi |-> [builtin |-> "play_sound", path |-> "a.wav"]]}

DelayOptions == {None, Some(250)}

\* The macros whose steps are taken from actions, none, one or two of them.
MacrosOver(actions) ==
    {Macro(steps) :
        steps \in UNION {[1..n -> {MacroStep(a, d) : a \in actions,
                                                     d \in DelayOptions}] :
                            n \in 0..2}}

\* A macro of n steps of the same action and delay.
WideMacro(n, action, delay_ms) ==
    Macro([k \in 1..n |-> MacroStep(action, delay_ms)])

\* Bindings offered to expand: the trees of depth at most two, and trees
\* with a wide macro of about MAX_STEPS steps or half as many delayed
\* steps as first step and a small tree as second.
SmallBindings == LeafBindings \cup MacrosOver(LeafBindings)
ExpandBindings ==
    SmallBindings \cup MacrosOver(SmallBindings) \cup
    {Macro(<<MacroStep(WideMacro(n, a, d2), d1), MacroStep(t, d3)>>) :
        n \in {63, 64, 126, 127, 128, 129},
        a \in LeafBindings, d1 \in DelayOptions, d2 \in DelayOptions,
        d3 \in DelayOptions, t \in SmallBindings}

\* expand(binding): the Result it returns.
Expand(binding) ==
    /\ codec.fn = "none"
    /\ codec' = [fn |-> "expand", arg |-> 0, binding |-> binding,
                 out |-> expand(binding)]
    /\ UNCHANGED <<hid, listed, conn>>
    /\ UNCHANGED auxVars
    /\ UNCHANGED sessVars

NextCodec ==
    \/ \E binding \in ExpandBindings : Expand(binding)
    \/ \E d \in RawDescriptors : Recognize(d)
    \/ \E h \in WideEnumerations : SortCandidates(h)
    \/ \E percent \in 0..255 : SendBrightness(percent)
    \/ \E key \in ImageKeys, jpeg \in Jpegs : WriteKeyImage(key, jpeg)
    \/ \E key_count \in KeyCounts :
           \E report \in ParseInputs(key_count) :
               ParseKeyStates(report, key_count)

CodecSpec == InitCodec /\ [][NextCodec]_vars

\* The worker thread is scheduled fairly; nothing is assumed of the consumer
\* or of the callers.
FairSpec == Spec /\ WF_vars(Worker)

(***************************************************************************)
(* Callers that issue one command after another (lines 207-260, 443-489).  *)
(* Caller i awaits the reply of its call and may then call again; cstat[i] *)
(* is the state of its latest call. No log of the device operations is     *)
(* kept, so a command is executed in one step. No read fails and neither   *)
(* channel end is dropped.                                                 *)
(***************************************************************************)
Callers == 1..MaxOps

\* Caller i calls set_brightness through handle h: cmd_tx.send(..).await
\* returns once the queue has room.
Call(h, i) ==
    /\ h \in handles
    /\ pc # "done"
    /\ cstat[i] \in {"unissued", "ok", "err"}
    /\ Len(cmdq) < CmdCap
    /\ cmdq' = Append(cmdq, [id |-> i, kind |-> "SetBrightness", arg |-> 150,
                             jpeg_len |-> 0])
    /\ cstat' = [cstat EXCEPT ![i] = "queued"]
    /\ UNCHANGED <<pc, term, cur, page, devlog, nextId, handles, rxAlive,
                   events, received, decoded, last_keys, current, emit_k,
                   nreads, mark>>
    /\ UNCHANGED svcVars

\* Lines 214-238, one turn of the while loop: try_recv returns a command,
\* the command is executed, with or without a write error, and resp.send
\* hands the result to its caller.
RunCommand(ok) ==
    /\ pc = "drain"
    /\ cmdq # <<>>
    /\ cstat' = [cstat EXCEPT ![TryRecvCmd(cmdq).id] =
                                 IF ok THEN "ok" ELSE "err"]
    /\ cmdq' = RestCmd(cmdq)
    /\ UNCHANGED <<pc, term, cur, page, devlog, nextId, handles, rxAlive,
                   events, received, decoded, last_keys, current, emit_k,
                   nreads, mark>>
    /\ UNCHANGED svcVars

\* Key-state reports of the device: key 0 down, and all keys up.
StarveReports ==
    {<<KeyStateReportId>> \o KeyBytes(S, 1) : S \in {{}, {0}}}

StarveWorker ==
    \/ IdleCheck
    \/ \E ok \in BOOLEAN : RunCommand(ok)
    \/ DrainEnd
    \/ ReadTimeout
    \/ \E report \in StarveReports : ReadReport(report)
    \/ EmitSend
    \/ EmitDone

NextStarve ==
    \/ StarveWorker
    \/ \E h \in Handles, i \in Callers : Call(h, i)
    \/ RecvEvent

\* The worker thread is scheduled fairly.
StarveSpec == Init /\ [][NextStarve]_vars /\ WF_vars(StarveWorker)

(***************************************************************************)
(* Auxiliary definitions for the properties.                               *)
(***************************************************************************)
AllUp == [i \in 1..KeyCount |-> FALSE]
Down(S) == [i \in 1..KeyCount |-> (i - 1) \in S]

UntagAll(s) == [k \in 1..Len(s) |-> Untag(s[k])]

\* The last n elements of s.
LastN(s, n) == SubSeq(s, Len(s) - n + 1, Len(s))

\* Indices (1-based) at which two snapshots differ.
Changed(prev, curr) == {i \in 1..Len(prev) : prev[i] # curr[i]}

\* The events of decoded that address Key(key), in order.
OfKey(s, key) == SelectSeq(s, LAMBDA e : e.control = <<"Key", key>>)

(***************************************************************************)
(* C2. emit_key_events, for the snapshot prev = last_keys and a decoded    *)
(* vector curr = current of the same length: it hands to the channel       *)
(* exactly one event per index where they differ (as many events as the    *)
(* Hamming distance), Key(i) Down if curr[i] and Key(i) Up otherwise, in   *)
(* ascending index order and none for an unchanged index; and once it has  *)
(* returned the snapshot equals curr.                                      *)
(***************************************************************************)
C2_TransitionOnlyEmission ==
    /\ pc = "emit" =>
         LET evs == KeyEvents(last_keys, current)
             ch == Changed(last_keys, current)
         IN  /\ Len(current) = Len(last_keys)
             /\ Len(evs) = Cardinality(ch)
             /\ \A i \in ch :
                    Cardinality({k \in 1..Len(evs) :
                                    evs[k].control = <<"Key", i - 1>>}) = 1
             /\ \A k \in 1..Len(evs) :
                    /\ evs[k].control[1] = "Key"
                    /\ evs[k].control[2] + 1 \in ch
                    /\ evs[k].kind =
                         IF current[evs[k].control[2] + 1] THEN "Down" ELSE "Up"
             /\ emit_k <= Len(evs)
             /\ emit_k <= Len(decoded)
             /\ UntagAll(LastN(decoded, emit_k)) = SubSeq(evs, 1, emit_k)
    /\ (pc # "emit" /\ current # <<>>) => last_keys = current

\* A key release has been handed to the channel: the snapshot had key 0 down
\* and the report has it up.
C2_Witness ==
    /\ pc = "emit"
    /\ last_keys = Down({0, 1})
    /\ current = Down({0})
    /\ emit_k = 1
    /\ Untag(decoded[Len(decoded)]) = KeyEvent(1, FALSE)

(***************************************************************************)
(* C3. From a fresh session (all keys up), over any sequence of valid      *)
(* key-state reports, the events handed to the channel for a report are    *)
(* exactly the transitions relative to the previous valid report: for      *)
(* every key the events alternate Down, Up, Down, ... beginning with Down, *)
(* the snapshot is the state the events so far add up to, and a report     *)
(* equal to the previous one emits nothing. With key_count = 6, report     *)
(* [1,1,0,0,0,0,0] on a fresh session yields exactly Key(0) Down and a     *)
(* following [1,0,0,0,0,0,0] exactly Key(0) Up.                            *)
(***************************************************************************)
C3_Alternates(key) ==
    LET s == OfKey(decoded, key)
    IN  \A k \in 1..Len(s) : s[k].kind = IF k % 2 = 1 THEN "Down" ELSE "Up"

\* The key is down according to the events handed to the channel so far.
C3_DownByEvents(key) == Len(OfKey(decoded, key)) % 2 = 1

C3_KeyTransitions ==
    /\ \A key \in 0..(KeyCount - 1) : C3_Alternates(key)
    /\ pc # "emit" =>
         \A key \in 0..(KeyCount - 1) : last_keys[key + 1] = C3_DownByEvents(key)
    /\ (pc = "emit" /\ emit_k = Len(KeyEvents(last_keys, current))) =>
         \A key \in 0..(KeyCount - 1) : current[key + 1] = C3_DownByEvents(key)
    /\ (pc = "emit" /\ current = last_keys) =>
         (KeyEvents(last_keys, current) = <<>> /\ emit_k = 0)
    /\ (pc = "emit"
        /\ current = parse_key_states_v1(<<1, 1, 0, 0, 0, 0, 0>>, 6).states) =>
         /\ last_keys = AllUp =>
              KeyEvents(last_keys, current) = <<KeyEvent(0, TRUE)>>
         /\ (nreads = 1 /\ emit_k = 1) =>
              UntagAll(decoded) = <<KeyEvent(0, TRUE)>>
    /\ (pc = "emit"
        /\ current = parse_key_states_v1(<<1, 0, 0, 0, 0, 0, 0>>, 6).states
        /\ last_keys = parse_key_states_v1(<<1, 1, 0, 0, 0, 0, 0>>, 6).states) =>
         /\ KeyEvents(last_keys, current) = <<KeyEvent(0, FALSE)>>
         /\ (nreads = 2 /\ emit_k = 1) =>
              UntagAll(decoded) = <<KeyEvent(0, TRUE), KeyEvent(0, FALSE)>>

\* Scenario A has run, and key 0 has been pressed again in a third report.
C3_Witness ==
    /\ nreads = 3
    /\ pc = "check"
    /\ UntagAll(decoded) =
         <<KeyEvent(0, TRUE), KeyEvent(0, FALSE), KeyEvent(0, TRUE)>>
    /\ last_keys = Down({0})

(***************************************************************************)
(* C1. When a read returns a non-timeout error, exactly one Disconnected   *)
(* event is emitted, no event of any kind is emitted after it, and the     *)
(* session moves to Terminated and never runs another iteration.           *)
(***************************************************************************)
DisconnectedCount(s) ==
    Cardinality({k \in 1..Len(s) : s[k].kind = "Disconnected"})

\* What holds once the worker has returned after a read error.
C1_AfterReadError ==
    (pc = "done" /\ term = "read_error") =>
        /\ DisconnectedCount(decoded) = 1
        /\ decoded[Len(decoded)].kind = "Disconnected"
        /\ cur = NoCmd

C1_ReadErrorTerminates ==
    /\ [](pc = "disc" => <>(pc = "done"))
    /\ []C1_AfterReadError
    /\ [][pc = "done" => UNCHANGED <<pc, term, decoded, devlog, nreads>>]_vars

(***************************************************************************)
(* C4. For every DeviceCommand accepted into the command queue exactly one *)
(* reply is sent on its reply channel, whether the device write succeeded  *)
(* or failed; no command receives zero replies and none receives two.      *)
(***************************************************************************)
ReplyCount(id) ==
    Cardinality({k \in 1..Len(devlog) :
                    devlog[k].op = "reply" /\ devlog[k].id = id})

WriteCount(id) ==
    Cardinality({k \in 1..Len(devlog) :
                    devlog[k].op \in {"write", "feature"} /\ devlog[k].id = id})

Issued == 1..(nextId - 1)

\* The command was accepted into the queue (its send succeeded).
Accepted(id) == id \in Issued /\ cstat[id] # "rejected"

\* The worker has taken the command from the queue.
Dequeued(id) == id \in Issued /\ cstat[id] \in {"running", "ok", "err"}

\* The claim as stated, at the end of the session.
C4_EveryAcceptedCommandReplied ==
    pc = "done" => \A id \in Issued : Accepted(id) => ReplyCount(id) = 1

\* As amended: exactly one reply for every command the worker has taken from
\* the queue and finished executing, success or failure; none yet for the
\* one being executed; none, ever, for a command that was still queued when
\* the worker returned (its reply channel is closed instead).
C4_OneReplyPerDequeuedCommand ==
    \A id \in 1..MaxOps :
        /\ ReplyCount(id) <= 1
        /\ (Dequeued(id) /\ cur.id # id) => ReplyCount(id) = 1
        /\ cur.id = id => (pc = "exec" /\ cstat[id] = "running" /\ ReplyCount(id) = 0)
        /\ cstat[id] = "running" => cur.id = id
        /\ ~Dequeued(id) => ReplyCount(id) = 0
        /\ \A k \in 1..Len(devlog) :
              (devlog[k].op = "reply" /\ devlog[k].id = id) =>
                  cstat[id] = IF devlog[k].ok THEN "ok" ELSE "err"

\* One command was answered with success, one with a failure, and a third
\* was still queued when the worker returned.
C4_Witness ==
    /\ pc = "done"
    /\ \E a, b, c \in Issued :
          /\ cstat[a] = "ok" /\ cstat[b] = "err" /\ cstat[c] = "stopped"
          /\ ReplyCount(a) = 1 /\ ReplyCount(b) = 1 /\ ReplyCount(c) = 0

(***************************************************************************)
(* C5. Once the worker has returned, every handle operation issued         *)
(* afterwards and every command still unread in the queue at that moment   *)
(* completes for its caller with an error, never with success, and         *)
(* performs no device write.                                               *)
(***************************************************************************)
C5_TerminatedSessionRejects ==
    /\ pc = "done" =>
          /\ cmdq = <<>>
          /\ cur = NoCmd
          /\ \A id \in Issued : cstat[id] \in {"ok", "err", "stopped", "rejected"}
    /\ \A id \in 1..MaxOps :
          /\ cstat[id] \in {"stopped", "rejected"} =>
                (pc = "done" /\ WriteCount(id) = 0 /\ ReplyCount(id) = 0)
          /\ cstat[id] = "ok" => ReplyCount(id) = 1

\* After a read error ended the session, one command had been left in the
\* queue and another was issued afterwards.
C5_Witness ==
    /\ pc = "done"
    /\ term = "read_error"
    /\ \E a, b \in Issued : cstat[a] = "stopped" /\ cstat[b] = "rejected"

(***************************************************************************)
(* C6. Command processing never blocks indefinitely: every command         *)
(* enqueued while the session is Running eventually gets a reply or an     *)
(* error, given only a fairly scheduled worker and device operations that  *)
(* return, whether or not the consumer drains the event channel.           *)
(***************************************************************************)
C6_CommandsAnswered ==
    \A id \in 1..MaxOps :
        [](cstat[id] = "queued" => <>(cstat[id] \in {"ok", "err", "stopped"}))

(***************************************************************************)
(* C7. Event delivery is fire-and-forget: with the event channel full and  *)
(* the consumer not draining, emitting an event drops it and the worker    *)
(* proceeds to its next step without waiting on the consumer.              *)
(***************************************************************************)
\* The worker is about to hand an event to a full channel whose receiver is
\* still held.
EmittingToFullChannel ==
    /\ rxAlive
    /\ Len(events) = EventCap
    /\ \/ pc = "emit" /\ emit_k < Len(KeyEvents(last_keys, current))
       \/ pc = "disc"

C7_EmitNeverWaits == EmittingToFullChannel => ENABLED Worker

(***************************************************************************)
(* C8. The commands of a session are executed against the write handle     *)
(* strictly in the order they were enqueued, whichever clone of the handle *)
(* sent them: if A is enqueued before B, every device write of A and A's   *)
(* reply come before any device write of B.                                *)
(***************************************************************************)
\* Command ids are given in enqueue order, so the order of the device-side
\* history must be the order of the ids, a reply closing its command.
C8_CommandsFifo ==
    /\ \A i, j \in 1..Len(devlog) :
          i < j =>
             /\ devlog[i].id <= devlog[j].id
             /\ devlog[i].op = "reply" => devlog[i].id < devlog[j].id
             /\ (devlog[i].id = devlog[j].id /\ devlog[j].op # "reply") =>
                    devlog[i].page < devlog[j].page
    /\ \A i, j \in 1..Len(cmdq) : i < j => cmdq[i].id < cmdq[j].id
    /\ \A k \in 1..Len(devlog), q \in 1..Len(cmdq) : devlog[k].id < cmdq[q].id
    /\ cur.id # 0 =>
          /\ \A k \in 1..Len(devlog) : devlog[k].id <= cur.id
          /\ \A q \in 1..Len(cmdq) : cur.id < cmdq[q].id

\* Three commands were enqueued: the first has been executed with two device
\* writes and answered, then the second; the third is still queued.
C8_Witness ==
    /\ Len(devlog) = 4
    /\ devlog[1] = [op |-> "write", id |-> 1, key |-> 0, page |-> 0]
    /\ devlog[2] = [op |-> "write", id |-> 1, key |-> 0, page |-> 1]
    /\ devlog[3] = [op |-> "reply", id |-> 1, ok |-> TRUE]
    /\ devlog[4].id = 2
    /\ cstat[3] = "queued"

(***************************************************************************)
(* C9. Events reach the consumer in the order they were decoded, which is  *)
(* the order the reports were read: what the consumer has received is an   *)
(* order-preserving subsequence of the decode sequence, and the events of  *)
(* one report (ascending key index) precede those of any later report.     *)
(***************************************************************************)
RECURSIVE IsSubseq(_, _)
IsSubseq(a, b) ==
    IF a = <<>> THEN TRUE
    ELSE IF b = <<>> THEN FALSE
    ELSE IF Head(a) = Head(b) THEN IsSubseq(Tail(a), Tail(b))
    ELSE IsSubseq(a, Tail(b))

\* e1 was decoded before e2: from an earlier read, or from the same report
\* at a lower key index.
DecodedBefore(e1, e2) ==
    \/ e1.rep < e2.rep
    \/ e1.rep = e2.rep /\ e1.control[2] < e2.control[2]

C9_EventsInDecodeOrder ==
    LET seen == received \o events
    IN  /\ IsSubseq(received, decoded)
        /\ rxAlive => IsSubseq(seen, decoded)
        /\ \A i, j \in 1..Len(seen) : i < j => DecodedBefore(seen[i], seen[j])
        /\ \A i, j \in 1..Len(decoded) : i < j => DecodedBefore(decoded[i], decoded[j])

\* The consumer has received the two events of one report and then an event
\* of a later report.
C9_Witness ==
    /\ Len(received) = 3
    /\ received[1].rep = received[2].rep
    /\ received[1].control = <<"Key", 0>>
    /\ received[2].control = <<"Key", 1>>
    /\ received[3].rep > received[2].rep

(***************************************************************************)
(* C10. A command enqueued before a given read begins has completed all of *)
(* its device-side writes before any event decoded from that read is       *)
(* observable by the consumer on the event channel.                        *)
(***************************************************************************)
Completed(id) == cstat[id] \in {"ok", "err"}

\* An event of the read in progress is in the channel or with the consumer.
EventOfReadObservable ==
    /\ rxAlive
    /\ pc = "emit"
    /\ emit_k > 0

\* The claim as stated: mark is the number of commands enqueued when the
\* read began.
C10_EnqueuedBeforeReadCompleted ==
    EventOfReadObservable => \A id \in 1..mark : Completed(id)

\* As amended: every command the worker took from the queue before the read
\* began (every command enqueued before the drain preceding the read found
\* the queue empty) has completed its writes and reply before the read
\* begins, hence before any of its events is observable; only commands
\* enqueued after that drain ended are still waiting.
C10_DequeuedBeforeReadCompleted ==
    pc \in {"read", "emit", "disc"} =>
        /\ cur = NoCmd
        /\ \A id \in Issued :
              \/ Completed(id) /\ ReplyCount(id) = 1
              \/ cstat[id] = "queued" /\ \E q \in 1..Len(cmdq) : cmdq[q].id = id

\* An event of a read is observable while a two-chunk command executed
\* before the read is complete and another command, enqueued after the
\* drain, is still waiting.
C10_Witness ==
    /\ EventOfReadObservable
    /\ cstat[1] = "ok" /\ WriteCount(1) = 2
    /\ cstat[2] = "queued"
    /\ mark = 1

(***************************************************************************)
(* Idle exit (lines 207-211).                                              *)
(***************************************************************************)

\* The consumer has dropped the event receiver and every handle clone.
Abandoned == EventTxClosed /\ CmdRxClosed

\* C11: once the consumer has dropped the event receiver and every clone of
\* the command sender, the worker returns; at the idle-exit check it returns
\* at once, with no Disconnected handed to the channel in the whole run; no
\* event enters the channel after the drop; and a worker that has returned
\* performs no device read or write and sends nothing.
C11_IdleExit ==
    /\ [](Abandoned => <>(pc = "done"))
    /\ [][(Abandoned /\ pc = "check") => (pc' = "done" /\ term' = "idle")]_vars
    /\ [](term = "idle" =>
            /\ pc = "done"
            /\ Abandoned
            /\ DisconnectedCount(decoded) = 0)
    /\ [](Abandoned => events = <<>>)
    /\ [][pc = "done" =>
            /\ pc' = "done"
            /\ devlog' = devlog
            /\ nreads' = nreads
            /\ decoded' = decoded]_vars

\* A session that executed a command and delivered an event has been
\* abandoned by its consumer and has returned at the idle-exit check.
C11_Witness ==
    /\ pc = "done"
    /\ term = "idle"
    /\ Abandoned
    /\ WriteCount(1) > 0
    /\ received # <<>>

(***************************************************************************)
(* Cancelled calls (lines 214-239).                                        *)
(***************************************************************************)

Cancelled(id) == id \in Issued /\ cstat[id] = "cancelled"

InQueue(id) == \E k \in 1..Len(cmdq) : cmdq[k].id = id

\* C12 as stated: every command whose reply receiver was dropped after it
\* was enqueued is executed, so a session that has terminated has executed
\* each of them; and executing one never ends the session.
C12_CancelledCommandExecuted ==
    \A id \in Issued :
        Cancelled(id) =>
            /\ pc = "done" => ReplyCount(id) = 1
            /\ cur.id = id => pc \in {"exec"}

\* C12, amended: a cancelled command that the worker takes from its queue is
\* executed like any other. While the session runs, each cancelled command
\* is still queued, or is being executed, or has been executed and its reply
\* sent (to nobody); its execution ends with Ok exactly when all its reports
\* are written, and leaves the worker in its drain loop, not terminated.
C12_TakenCancelledCommandExecuted ==
    /\ [](\A id \in Issued :
            Cancelled(id) =>
                /\ ReplyCount(id) <= 1
                /\ pc # "done" =>
                      \/ InQueue(id)
                      \/ cur.id = id /\ pc = "exec" /\ ReplyCount(id) = 0
                      \/ ~InQueue(id) /\ cur.id # id /\ ReplyCount(id) = 1)
    /\ [][(cur.id # 0 /\ Cancelled(cur.id) /\ cur'.id # cur.id) =>
            /\ pc' = "drain"
            /\ term' = "none"
            /\ cstat'[cur.id] = "cancelled"
            /\ devlog' = Append(devlog,
                   [op |-> "reply", id |-> cur.id,
                    ok |-> (WriteCount(cur.id) = NumWrites(cur))])]_vars

\* A cancelled two-report image command has been executed in full and
\* replied to, and the worker has gone on to read the device.
C12_Witness ==
    /\ Cancelled(1)
    /\ WriteCount(1) = 2
    /\ ReplyCount(1) = 1
    /\ pc = "read"
    /\ term = "none"

(***************************************************************************)
(* The end of the event stream and failures of the set-up.                 *)
(***************************************************************************)

\* What the consumer has taken or can still take from event_rx.
Stream == received \o events

OpenFailed == term \in {"open_read_failed", "open_write_failed"}

\* C13: when the worker has stopped while the consumer holds the event
\* receiver, the last element of the event stream is Disconnected.
C13_StreamEndsWithDisconnected ==
    (pc = "done" /\ rxAlive) =>
        /\ Stream # <<>>
        /\ Untag(Stream[Len(Stream)]) = Disconnected

\* C14: when opening the read path or the write path has failed, connect
\* has returned an error and there is no event receiver and no handle.
C14_OpenFailureFailsConnect ==
    OpenFailed =>
        /\ conn.st = "error"
        /\ ~rxAlive
        /\ handles = {}

(***************************************************************************)
(* Dial and touch-strip commands (lines 224-237).                          *)
(***************************************************************************)

\* The commands of the enhanced surfaces.
EnhancedOnly == {"SetDialImageJpeg", "SetTouchStripImageJpeg"}

\* The worker is executing a dial or touch-strip command in a session whose
\* device is not an enhanced one (is_plus is false).
UnsupportedCommandRunning ==
    /\ ~conn.is_plus
    /\ cur.id # 0
    /\ cur.kind \in EnhancedOnly

\* C15: in a session of a device without dials and touch strip, a dial or
\* touch-strip command writes nothing to the device, its reply is an error,
\* and the worker goes on with its drain loop.
C15_CapabilityErrorOnPlainDevice ==
    /\ [](UnsupportedCommandRunning => WriteCount(cur.id) = 0)
    /\ [][(UnsupportedCommandRunning /\ cur'.id # cur.id) =>
            /\ cstat'[cur.id] = "err"
            /\ pc' = "drain"
            /\ term' = "none"]_vars

(***************************************************************************)
(* Discovery (lines 72-103).                                               *)
(***************************************************************************)

\* The identities of the recognized descriptors of the enumeration.
Identities(h) ==
    {DeviceIdOf(h[i]) : i \in {j \in 1..Len(h) : looks_like_stream_deck(h[j])}}

\* The enumeration with its descriptors in the opposite order.
Reversed(h) == [i \in 1..Len(h) |-> h[Len(h) + 1 - i]]

ListedIds(out) == {out[k].id : k \in 1..Len(out)}

\* C16: list_devices returns one entry for each distinct identity among the
\* recognized descriptors and no other entry: as many entries as
\* identities, no id twice, and the same ids when the descriptors are
\* enumerated in another order. (The result of list_devices is looked at
\* where the call has returned; no later step changes it.)
C16_OneEntryPerIdentity ==
    (listed.done /\ conn.st = "idle") =>
        LET ids == Identities(hid)
            rev == list_devices(Reversed(hid))
        IN  /\ Len(listed.out) = Cardinality(ids)
            /\ ListedIds(listed.out) = ids
            /\ \A j, k \in 1..Len(listed.out) :
                  listed.out[j].id = listed.out[k].id => j = k
            /\ ListedIds(rev) = ids
            /\ Len(rev) = Len(listed.out)

\* Three descriptors, two of them interfaces of one device, are listed as
\* two devices.
C16_Witness ==
    /\ listed.done
    /\ Len(hid) = 3
    /\ \A i \in 1..3 : looks_like_stream_deck(hid[i])
    /\ Cardinality(Identities(hid)) = 2
    /\ Len(listed.out) = 2

(***************************************************************************)
(* connect: candidates and their roles (lines 105-145).                    *)
(***************************************************************************)

\* C17: connect(id) fails with "device not found" exactly when no
\* recognized descriptor of the enumeration has identity id, and then there
\* is no worker thread, no channel and no handle.
C17_NotFoundIffNoCandidate ==
    conn.st # "idle" =>
        /\ conn.st = "not_found" <=> conn.id \notin Identities(hid)
        /\ conn.st = "not_found" =>
              /\ pc = "none"
              /\ ~rxAlive
              /\ handles = {}
              /\ events = <<>>
              /\ cmdq = <<>>

\* connect was refused for the id of a device that is enumerated but is not
\* recognized as a Stream Deck.
C17_Witness ==
    /\ conn.st = "not_found"
    /\ \E i \in 1..Len(hid) : DeviceIdOf(hid[i]) = conn.id
    /\ \E i \in 1..Len(hid) : looks_like_stream_deck(hid[i])

\* The interface numbers of the candidates of the connected device, in
\* enumeration order.
CandidateInterfaces ==
    LET c == Candidates(hid, conn.id)
    IN  [k \in 1..Len(c) |-> c[k].interface_number]

SetOf(s) == {s[k] : k \in 1..Len(s)}

\* The interface numbers ci are exactly one per number of S.
OnePerInterface(ci, S) ==
    /\ Len(ci) = Cardinality(S)
    /\ SetOf(ci) = {Some(n) : n \in S}

ReadInterface == hid[conn.read_path].interface_number
WriteInterface == hid[conn.write_path].interface_number

\* C18 as stated: with candidates on interfaces {0,1,2} the write path is
\* interface 0 and the read path is interface 2; with a single candidate on
\* interface 2 both paths are that candidate.
C18_ReadPathIsLast ==
    conn.st = "ok" =>
        LET ci == CandidateInterfaces
        IN  /\ OnePerInterface(ci, {0, 1, 2}) =>
                  /\ WriteInterface = Some(0)
                  /\ ReadInterface = Some(2)
            /\ OnePerInterface(ci, {2}) =>
                  /\ conn.write_path = conn.read_path
                  /\ ReadInterface = Some(2)

\* C18, amended: the write path is the first candidate on interface 0, or
\* the first of the sorted candidates when there is none; the read path is
\* the first candidate on interface 1, or the last of the sorted candidates
\* when there is none. So {0,1,2} gives write 0 and read 1, {0,2} gives
\* write 0 and read 2, and a single candidate on interface 2 gets both.
C18_ReadPathIsInterfaceOne ==
    conn.st = "ok" =>
        LET ci == CandidateInterfaces
            ifs == SetOf(ci)
        IN  /\ Some(0) \in ifs => WriteInterface = Some(0)
            /\ Some(1) \in ifs => ReadInterface = Some(1)
            /\ Some(0) \notin ifs =>
                  \A n \in ifs :
                      unwrap_or(WriteInterface, 999) <= unwrap_or(n, 999)
            /\ Some(1) \notin ifs =>
                  \A n \in ifs :
                      unwrap_or(ReadInterface, 999) >= unwrap_or(n, 999)
            /\ DeviceIdOf(hid[conn.read_path]) = conn.id
            /\ DeviceIdOf(hid[conn.write_path]) = conn.id
            /\ OnePerInterface(ci, {0, 1, 2}) =>
                  /\ WriteInterface = Some(0)
                  /\ ReadInterface = Some(1)
            /\ OnePerInterface(ci, {0, 2}) =>
                  /\ WriteInterface = Some(0)
                  /\ ReadInterface = Some(2)
            /\ OnePerInterface(ci, {2}) =>
                  /\ conn.write_path = conn.read_path
                  /\ ReadInterface = Some(2)

\* A device enumerated with interfaces 2, 0, 1, in that order, is connected.
C18_Witness ==
    /\ conn.st = "ok"
    /\ CandidateInterfaces = <<Some(2), Some(0), Some(1)>>
    /\ pc = "check"

(***************************************************************************)
(* Image upload framing (lines 379-414).                                   *)
(***************************************************************************)

\* The fields of a written report, as its receiver reads them.
IsLastOf(r) == r[4]
PageOf(r) == r[5] + 256 * r[6]
TakeOf(r) == r[7] + 256 * r[8]
PayloadOf(r) == SubSeq(r, HEADER_LEN + 1, HEADER_LEN + TakeOf(r))

MaxPage(rs) ==
    IF rs = <<>> THEN -1
    ELSE CHOOSE p \in {PageOf(rs[k]) : k \in 1..Len(rs)} :
             \A k \in 1..Len(rs) : PageOf(rs[k]) <= p

RECURSIVE PayloadsOfPage(_, _, _)
PayloadsOfPage(rs, p, k) ==
    IF k > Len(rs) THEN <<>>
    ELSE (IF PageOf(rs[k]) = p THEN PayloadOf(rs[k]) ELSE <<>>)
            \o PayloadsOfPage(rs, p, k + 1)

\* The payloads of the reports rs concatenated in ascending page order,
\* from page p on.
RECURSIVE ReassembleFrom(_, _)
ReassembleFrom(rs, p) ==
    IF p > MaxPage(rs) THEN <<>>
    ELSE PayloadsOfPage(rs, p, 1) \o ReassembleFrom(rs, p + 1)

Reassemble(rs) == ReassembleFrom(rs, 0)

LastReports(rs) == {k \in 1..Len(rs) : IsLastOf(rs[k]) = 1}

ImageEncoded == codec.fn = "set_key_image_v1_jpeg"

\* C19 as stated: for a buffer of any length, 0 included, the payloads in
\* page order give back the buffer and exactly one written report has
\* is_last = 1.
C19_RoundTripOneLast ==
    ImageEncoded =>
        /\ Reassemble(codec.out) = codec.jpeg
        /\ Cardinality(LastReports(codec.out)) = 1

\* C19, amended: the payloads in page order give back the buffer; for a
\* buffer of at least one byte exactly one report has is_last = 1, the one
\* written last, whose payload ends with the final byte of the buffer; for
\* the empty buffer no report is written. Every report is REPORT_LEN bytes
\* long, carries the key, and is zero after its payload.
C19_RoundTripLastIffNonEmpty ==
    ImageEncoded =>
        LET rs == codec.out
            n == Len(rs)
            L == Len(codec.jpeg)
        IN  /\ Reassemble(rs) = codec.jpeg
            /\ L = 0 => rs = <<>>
            /\ L > 0 =>
                  /\ LastReports(rs) = {n}
                  /\ (n - 1) * (REPORT_LEN - HEADER_LEN) < L
                  /\ L <= n * (REPORT_LEN - HEADER_LEN)
                  /\ TakeOf(rs[n]) = L - (n - 1) * (REPORT_LEN - HEADER_LEN)
                  /\ PayloadOf(rs[n])[TakeOf(rs[n])] = codec.jpeg[L]
            /\ \A k \in 1..n :
                  /\ Len(rs[k]) = REPORT_LEN
                  /\ rs[k][1] = 2
                  /\ rs[k][2] = 1
                  /\ rs[k][3] = codec.arg
                  /\ PageOf(rs[k]) = k - 1
                  /\ \A j \in (HEADER_LEN + TakeOf(rs[k]) + 1)..REPORT_LEN :
                        rs[k][j] = 0

\* A buffer one byte longer than a full payload was written as two reports.
C19_Witness ==
    /\ ImageEncoded
    /\ Len(codec.jpeg) = REPORT_LEN - HEADER_LEN + 1
    /\ Len(codec.out) = 2
    /\ TakeOf(codec.out[2]) = 1

(***************************************************************************)
(* Brightness (lines 369-377).                                             *)
(***************************************************************************)

\* C20: for every percent in 0..255 the feature report is the 17 bytes
\* 0x05, 0x55, min(percent, 100), 0, ..., 0: the percent byte is at most
\* 100, 150 becomes 100, and 0 and 100 stay.
C20_BrightnessReport ==
    codec.fn = "set_brightness_v1" =>
        LET r == codec.out[1]
        IN  /\ Len(codec.out) = 1
            /\ Len(r) = 17
            /\ r[1] = 5
            /\ r[2] = 85
            /\ r[3] = (IF codec.arg > 100 THEN 100 ELSE codec.arg)
            /\ r[3] \in 0..100
            /\ \A j \in 4..17 : r[j] = 0
            /\ codec.arg = 150 => r[3] = 100
            /\ codec.arg \in {0, 100} => r[3] = codec.arg

\* The report for percent 150 was built.
C20_Witness ==
    /\ codec.fn = "set_brightness_v1"
    /\ codec.arg = 150
    /\ codec.out[1][3] = 100

(***************************************************************************)
(* One worker per device (lines 105-199).                                  *)
(***************************************************************************)

\* The workers that are inside a device call on the interfaces of id.
InDeviceCall(id) ==
    {k \in 1..Len(sessions) : sessions[k].id = id /\ sessions[k].pc = "io"}

\* C21: at any time at most one thread is reading from or writing to the
\* HID interfaces of a DeviceId, however often connect was called for it.
C21_OneThreadPerDevice ==
    \A id \in ConnectIds : Cardinality(InDeviceCall(id)) <= 1


(***************************************************************************)
(* Input decoding of a session (DecodeSpec).                               *)
(***************************************************************************)

\* The worker has finished with the report in buf.
Processed == pc = "check" /\ nreads >= 1

\* The events emitted so far for control c with kind k.
Emitted(c, k) ==
    {n \in 1..Len(decoded) : decoded[n].control = c /\ decoded[n].kind = k}

\* C22: on an enhanced session a report with id 0x01 and at least 1+8+4
\* bytes has its four dial bytes diffed against the dial snapshot, which
\* starts all up, and a Dial(i) Down is emitted for a dial byte that became
\* non-zero: once such a report is processed, a Down of every dial whose
\* byte is set has been emitted.
C22_DialPressEmitted ==
    (conn.is_plus /\ Processed /\ Len(buf) >= 1 + PLUS_KEYS + DIALS
        /\ buf[1] = KeyStateReportId)
        => \A i \in 0..(DIALS - 1) :
               buf[1 + PLUS_KEYS + i + 1] # 0
                   => Emitted(<<"Dial", i>>, "Down") # {}

(***************************************************************************)
(* Key-state decode (CodecSpec).                                           *)
(***************************************************************************)

\* C23: parse_key_states_v1 returns a value exactly when the report is
\* non-empty, starts with 0x01 and has at least 1 + key_count bytes; the
\* value has key_count booleans, element i true iff report[1+i] is not 0,
\* whatever bytes follow; any other report gives None.
C23_KeyStateDecode ==
    codec.fn = "parse_key_states_v1"
        => LET report == codec.report
               key_count == codec.arg
               valid == /\ Len(report) > 0
                        /\ report[1] = 1
                        /\ Len(report) >= 1 + key_count
           IN  /\ codec.out.ok <=> valid
               /\ valid => /\ Len(codec.out.states) = key_count
                           /\ \A i \in 0..(key_count - 1) :
                                  codec.out.states[i + 1]
                                      <=> report[1 + i + 1] # 0
               /\ ~valid => codec.out.states = <<>>

\* A report with bytes after the key bytes is decoded, to a value with a
\* key down and a key up.
C23_Witness ==
    /\ codec.fn = "parse_key_states_v1"
    /\ codec.out.ok
    /\ Len(codec.report) > 1 + codec.arg
    /\ \E i, j \in 1..codec.arg :
           codec.out.states[i] /\ ~codec.out.states[j]

(***************************************************************************)
(* Role selection in connect (ConnectSpec).                                *)
(***************************************************************************)

\* Positions, in enumeration order, of the candidates c on interface n.
OnInterface(c, n) == {k \in 1..Len(c) : c[k].interface_number = Some(n)}

\* Minimum of a non-empty set of numbers.
MinOf(S) == CHOOSE k \in S : \A j \in S : k <= j

\* Position of the candidate that the stable sort by key puts first, and
\* of the one it puts last.
FirstSorted(c) ==
    CHOOSE k \in 1..Len(c) :
        \A j \in 1..Len(c) :
            \/ SortKey(c[k]) < SortKey(c[j])
            \/ SortKey(c[k]) = SortKey(c[j]) /\ k <= j
LastSorted(c) ==
    CHOOSE k \in 1..Len(c) :
        \A j \in 1..Len(c) :
            \/ SortKey(c[k]) > SortKey(c[j])
            \/ SortKey(c[k]) = SortKey(c[j]) /\ k >= j

\* C24: connect() takes as write path the candidate on interface 0 if there
\* is one and otherwise the first candidate of the sorted list, and as read
\* path the candidate on interface 1 if there is one and otherwise the last
\* candidate of the sorted list; a single candidate gets both roles.
C24_RoleSelection ==
    conn.st = "ok" =>
        LET c == Candidates(hid, conn.id)
            w == IF OnInterface(c, 0) # {} THEN MinOf(OnInterface(c, 0))
                 ELSE FirstSorted(c)
            r == IF OnInterface(c, 1) # {} THEN MinOf(OnInterface(c, 1))
                 ELSE LastSorted(c)
        IN  /\ conn.write_path = c[w].path
            /\ conn.read_path = c[r].path
            /\ Len(c) = 1 => /\ conn.write_path = c[1].path
                             /\ conn.read_path = c[1].path

\* A connected device with no candidate on interface 0 or 1 whose
\* candidates were not enumerated in sorted order, so both roles come from
\* the ends of the sorted list.
C24_Witness ==
    /\ conn.st = "ok"
    /\ LET c == Candidates(hid, conn.id)
       IN  /\ Len(c) >= 2
           /\ OnInterface(c, 0) = {}
           /\ OnInterface(c, 1) = {}
           /\ SortKey(c[1]) > SortKey(c[2])
           /\ conn.write_path # conn.read_path

(***************************************************************************)
(* The candidate sort of connect (CodecSpec).                              *)
(***************************************************************************)

RECURSIVE CarriedBefore(_, _)
CarriedBefore(rs, k) ==
    IF k <= 1 THEN 0 ELSE CarriedBefore(rs, k - 1) + TakeOf(rs[k - 1])

\* C26: every report of the image upload is 1024 bytes, with the header
\* [0x02, 0x01, key, is_last, page_lo, page_hi, len_lo, len_hi]; pages go
\* up by one from 0 in the order written; each report but the final one
\* carries 1016 payload bytes with is_last = 0, the final one carries 1 to
\* 1016 bytes and alone has is_last = 1; the length field is the number of
\* payload bytes, which are the next bytes of the buffer, and the bytes
\* after them are zero.
C26_ReportFormat ==
    ImageEncoded =>
        LET rs == codec.out
            n == Len(rs)
        IN  /\ \A k \in 1..n :
                  LET r == rs[k]
                      len == r[7] + 256 * r[8]
                      at == CarriedBefore(rs, k)
                  IN  /\ Len(r) = 1024
                      /\ r[1] = 2
                      /\ r[2] = 1
                      /\ r[3] = codec.arg
                      /\ r[4] = (IF k = n THEN 1 ELSE 0)
                      /\ r[5] = (k - 1) % 256
                      /\ r[6] = (k - 1) \div 256
                      /\ r[7] \in 0..255 /\ r[8] \in 0..255
                      /\ k < n => len = 1016
                      /\ k = n => len \in 1..1016
                      /\ at + len <= Len(codec.jpeg)
                      /\ \A j \in 1..len : r[8 + j] = codec.jpeg[at + j]
                      /\ \A j \in (8 + len + 1)..1024 : r[j] = 0
            /\ CarriedBefore(rs, n + 1) = Len(codec.jpeg)

\* A buffer one byte longer than two full payloads was written as three
\* reports.
C26_Witness ==
    /\ ImageEncoded
    /\ Len(codec.out) = 3
    /\ TakeOf(codec.out[1]) = 1016
    /\ TakeOf(codec.out[3]) = 1
    /\ codec.arg = 255

(***************************************************************************)
(* Dials and touch strip (DecodeSpec).                                     *)
(***************************************************************************)

\* The events in d that came from read n, in the order sent.
EventsOfRead(d, n) == SelectSeq(d, LAMBDA e : e.rep = n)

\* The report in buf has the given id and at least three bytes.
Shape(report, id) == Len(report) >= 3 /\ report[1] = id

\* C27: on an enhanced session a report [0x03, d, b, ...] of at least 3
\* bytes gives exactly one event, Dial(min(d, 3)) Rotate{delta} with delta
\* the byte b read as a signed 8-bit value (0x80 is -128, 0xFF is -1), and
\* no event when b = 0; the key snapshot and the dial snapshot stay as they
\* were.
C27_Rotate ==
    /\ [](conn.is_plus /\ Processed /\ Shape(buf, 3)
            => LET d == buf[2]
                   b == buf[3]
                   sent == EventsOfRead(decoded, nreads)
               IN  /\ b = 0 => sent = <<>>
                   /\ b # 0 =>
                         /\ Len(sent) = 1
                         /\ sent[1].control = <<"Dial", IF d < 3 THEN d ELSE 3>>
                         /\ sent[1].kind = "Rotate"
                         /\ sent[1].value = (IF b < 128 THEN b ELSE b - 256)
                         /\ b = 128 => sent[1].value = -128
                         /\ b = 255 => sent[1].value = -1)
    /\ [][conn.is_plus /\ Shape(buf', 3)
            => /\ last_keys' = last_keys
               /\ last_dials_down' = last_dials_down]_vars

\* The rotation [0x03, 7, 0xFF] was read and its event sent and received:
\* dial index clamped, delta negative.
C27_Witness ==
    /\ conn.is_plus
    /\ Processed
    /\ buf = <<3, 7, 255>>
    /\ \E k \in 1..Len(received) :
           /\ received[k].kind = "Rotate"
           /\ received[k].control = <<"Dial", 3>>

\* C28: on an enhanced session a report [0x04, lo, hi, ...] of at least 3
\* bytes gives exactly one TouchStrip Tap{x} with x = lo + 256*hi, also for
\* x = 0; a report [0x05, lo, hi, ...] of at least 3 bytes gives exactly one
\* TouchStrip Drag{delta_x} with delta_x the signed 16-bit little-endian
\* value of (lo, hi), and no event when that value is 0.
C28_TapAndDrag ==
    (conn.is_plus /\ Processed)
        => LET sent == EventsOfRead(decoded, nreads)
               u == buf[2] + 256 * buf[3]
           IN  /\ Shape(buf, 4) =>
                     /\ Len(sent) = 1
                     /\ sent[1].control = <<"TouchStrip", 0>>
                     /\ sent[1].kind = "Tap"
                     /\ sent[1].value = u
               /\ (Shape(buf, 5) /\ u = 0) => sent = <<>>
               /\ (Shape(buf, 5) /\ u # 0) =>
                     /\ Len(sent) = 1
                     /\ sent[1].control = <<"TouchStrip", 0>>
                     /\ sent[1].kind = "Drag"
                     /\ sent[1].value = (IF u < 32768 THEN u ELSE u - 65536)

\* A tap at x = 0 and a drag to the left have been decoded.
C28_Witness ==
    /\ conn.is_plus
    /\ Processed
    /\ \E j, k \in 1..Len(decoded) :
           /\ decoded[j].kind = "Tap" /\ decoded[j].value = 0
           /\ decoded[k].kind = "Drag" /\ decoded[k].value < 0

\* The report is a valid key-state report for key_count keys.
KeyStateShape(report, key_count) ==
    /\ Len(report) >= 1 + key_count
    /\ report[1] = 1

\* The report matches none of the shapes the session decodes.
Unrecognized(report) ==
    /\ report # <<>>
    /\ ~KeyStateShape(report, conn.key_count)
    /\ conn.is_plus =>
          /\ ~Shape(report, 3)
          /\ ~Shape(report, 4)
          /\ ~Shape(report, 5)

\* The worker is running: it has not returned and is not about to.
Running == term = "none" /\ pc \notin {"disc", "done"}

\* C29: a read that times out, and a report of no recognized shape (on a
\* session that is not enhanced every report that is not a valid key-state
\* report, the ids 0x03, 0x04 and 0x05 included), sends no event, leaves
\* the key snapshot and the dial snapshot as they were, sends no
\* Disconnected and leaves the session running.
C29_DroppedSilently ==
    /\ [](Unrecognized(buf) => /\ EventsOfRead(decoded, nreads) = <<>>
                               /\ Running)
    /\ [][Unrecognized(buf')
            => /\ last_keys' = last_keys
               /\ last_dials_down' = last_dials_down]_vars
    /\ [][(pc = "read" /\ pc' # "read" /\ nreads' = nreads)
            => /\ decoded' = decoded
               /\ events' = events
               /\ last_keys' = last_keys
               /\ last_dials_down' = last_dials_down
               /\ pc' = "check"
               /\ term' = "none"]_vars

\* A session that is not enhanced has read a rotation report after a key
\* press: the press is the only event and the snapshot still shows it.
C29_Witness ==
    /\ ~conn.is_plus
    /\ Processed
    /\ buf = <<3, 1, 1>>
    /\ nreads = 2
    /\ Len(decoded) = 1
    /\ last_keys[1]

\* C30: every event a session emits addresses a control of the device:
\* Key(i) with i < key_count, Dial(i) with i < 4, whatever is read.
C30_ControlsInBounds ==
    \A k \in 1..Len(decoded) :
        LET c == decoded[k].control
        IN  /\ c[1] = "Key" => c[2] \in 0..(conn.key_count - 1)
            /\ c[1] = "Dial" => c[2] \in 0..3

\* Events of the last key of an enhanced device and of a dial whose index
\* byte was beyond the dials have been emitted.
C30_Witness ==
    /\ \E k \in 1..Len(decoded) : decoded[k].control = <<"Key", 7>>
    /\ \E k \in 1..Len(decoded) :
           /\ decoded[k].control[1] = "Dial"
           /\ buf = <<3, 7, 255>>

(***************************************************************************)
(* Sessions of every device kind (KindSpec).                               *)
(***************************************************************************)

\* The keys the command being executed has written to so far.
KeysWritten ==
    {devlog[k].key : k \in {j \in 1..Len(devlog) :
                               /\ devlog[j].op = "write"
                               /\ devlog[j].id = cur.id}}

\* C31: the image of dial N is written to key index key_count + N and the
\* image of the touch strip to the index after the four dials, so a dial or
\* touch-strip image command never writes to an index below the session's
\* key_count.
C31_VirtualKeysBeyondKeys ==
    cur.id # 0 =>
        \A key \in KeysWritten :
            /\ (cur.kind = "SetDialImageJpeg" /\ cur.arg < DIALS)
                  => key = conn.key_count + cur.arg
            /\ cur.kind = "SetTouchStripImageJpeg"
                  => key = conn.key_count + DIALS
            /\ cur.kind \in EnhancedOnly => key >= conn.key_count

\* The first candidate of the connected device in sorted order.
FirstCandidate ==
    LET c == Candidates(hid, conn.id) IN c[FirstSorted(c)]

\* The worker has allocated its key snapshot.
SnapshotAllocated == pc \notin {"open_read", "open_write", "set_blocking_mode"}

\* C32 as stated: key_count comes from the first candidate in sorted order:
\* 6 for product id 0x0063, 32 for 0x006c, and for any other product id 8
\* if the name contains "plus" in any case and 15 otherwise; the worker's
\* key snapshot has key_count entries.
C32_KeyCountByPlusWord ==
    conn.st = "ok" =>
        LET f == FirstCandidate
            lower == to_ascii_lowercase(f.name)
        IN  /\ conn.key_count =
                  (CASE f.product_id = 99 -> 6
                     [] f.product_id = 108 -> 32
                     [] OTHER -> IF contains(lower, "plus") THEN 8 ELSE 15)
            /\ SnapshotAllocated => Len(last_keys) = conn.key_count

\* C32, amended: as above, but for another product id the count is 8 if
\* the name contains "plus" or "stream deck +" in any case, and 15
\* otherwise.
C32_KeyCountByPlusWordOrSign ==
    conn.st = "ok" =>
        LET f == FirstCandidate
            lower == to_ascii_lowercase(f.name)
        IN  /\ conn.key_count =
                  (CASE f.product_id = 99 -> 6
                     [] f.product_id = 108 -> 32
                     [] OTHER -> IF \/ contains(lower, "plus")
                                    \/ contains(lower, "stream deck +")
                                 THEN 8 ELSE 15)
            /\ conn.name = f.name
            /\ SnapshotAllocated => Len(last_keys) = conn.key_count

\* The worker of a device whose interface 0 is named with "Plus" and whose
\* interface 1, enumerated first, has no product string, runs with 8 keys.
C32_Witness ==
    /\ conn.st = "ok"
    /\ hid = TwoInterfaces(OriginalPlusNamed, OriginalUnnamed)
    /\ conn.key_count = 8
    /\ pc = "check"
    /\ Len(last_keys) = 8

(***************************************************************************)
(* Recognition of raw descriptors (CodecSpec).                             *)
(***************************************************************************)

\* The product strings of RawStrings that contain "stream deck" when case
\* is ignored.
MarkedStrings ==
    {Some("Stream Deck"), Some("STREAM DECK XL"), Some("Elgato stream deck +")}

\* C33: a descriptor is recognized exactly when its vendor id is 0x0fd9 and
\* its product id is 0x0060, 0x0063, 0x006c or 0x0080 or its product string
\* contains "stream deck" in any case; with another vendor id it is not
\* recognized, whatever its product id and string.
C33_Recognition ==
    codec.fn = "looks_like_stream_deck"
        => /\ codec.out <=>
                  /\ codec.d.vendor_id = 4057
                  /\ \/ codec.d.product_id \in {96, 99, 108, 128}
                     \/ codec.d.product_string \in MarkedStrings
           /\ codec.d.vendor_id # 4057 => ~codec.out

\* A descriptor of unknown product id was recognized by an upper-case
\* product string.
C33_Witness ==
    /\ codec.fn = "looks_like_stream_deck"
    /\ codec.out
    /\ codec.d.product_id = 132
    /\ codec.d.product_string = Some("STREAM DECK XL")

(***************************************************************************)
(* One channel still held (Spec).                                          *)
(***************************************************************************)

\* The consumer still holds the event receiver or a handle.
Held == rxAlive \/ handles # {}

\* C34: without a read error the session runs for as long as the consumer
\* holds the event receiver or a handle: with only one of the two dropped
\* the idle-exit check lets the loop go on, a worker that has returned has
\* returned for a read error, and the worker is never stopped for good: it
\* can always take its next step when the event receiver is dropped
\* (commands are executed), and when events are consumed so that the
\* channel has room (events are emitted).
C34_RunsWhileHeld ==
    /\ []((Held /\ pc = "done") => term = "read_error")
    /\ [][(Held /\ pc = "check" /\ pc' # "check") => pc' = "drain"]_vars
    /\ []((Held /\ pc # "done" /\ (~rxAlive \/ Len(events) < EventCap))
            => ENABLED Worker)

\* With the event receiver dropped and a handle kept, a command has been
\* answered and the next one is waiting in the queue of the running worker.
C34_Witness ==
    /\ ~rxAlive
    /\ handles # {}
    /\ term = "none"
    /\ pc = "drain"
    /\ cmdq # <<>>
    /\ \E id \in 1..MaxOps : cstat[id] = "ok"

(***************************************************************************)
(* Identity in discovery and connect (ConnectSpec).                        *)
(***************************************************************************)

\* What the identity of a descriptor is computed from.
Triple(d) == <<d.vendor_id, d.product_id, d.serial_number>>

\* The paths of the candidates connect(id) collects.
CandidatePaths(h, id) ==
    LET c == Candidates(h, id) IN {c[k].path : k \in 1..Len(c)}

\* C35: the device id is a function of (vendor id, product id, serial):
\* descriptors with the same three values have the same id; and for an id
\* that list_devices returned, connect(id) over the same enumeration
\* collects exactly the recognized descriptors whose three values are those
\* of a listed descriptor with that id, at least one, and does not fail with
\* "device not found".
C35_IdentityAgreement ==
    /\ \A i, j \in 1..Len(hid) :
           Triple(hid[i]) = Triple(hid[j])
               => DeviceIdOf(hid[i]) = DeviceIdOf(hid[j])
    /\ (listed.done /\ conn.st # "idle" /\ conn.id \in ListedIds(listed.out))
         => /\ conn.st # "not_found"
            /\ \E i \in 1..Len(hid) :
                   /\ looks_like_stream_deck(hid[i])
                   /\ DeviceIdOf(hid[i]) = conn.id
                   /\ CandidatePaths(hid, conn.id) =
                          {j \in 1..Len(hid) :
                               /\ looks_like_stream_deck(hid[j])
                               /\ Triple(hid[j]) = Triple(hid[i])}

\* Two Stream Decks and a device of another vendor are enumerated, and the
\* connect to a listed id has found the one descriptor of that device.
C35_Witness ==
    /\ listed.done
    /\ Len(listed.out) = 2
    /\ Len(hid) = 3
    /\ conn.st = "ok"
    /\ conn.id \in ListedIds(listed.out)
    /\ Cardinality(CandidatePaths(hid, conn.id)) = 1
    /\ \E i \in 1..Len(hid) : ~looks_like_stream_deck(hid[i])

(***************************************************************************)
(* Write failures (Spec).                                                  *)
(***************************************************************************)

\* Entry k of the device log is the error reply of a command.
ErrorReplyAt(log, k) == log[k].op = "reply" /\ ~log[k].ok

\* The step appends the error reply of the command being executed.
FailsCommand ==
    /\ cur.id # 0
    /\ Len(devlog') = Len(devlog) + 1
    /\ ErrorReplyAt(devlog', Len(devlog'))
    /\ devlog'[Len(devlog')].id = cur.id

\* C36: a failed device write stops its command at once: the error is the
\* command's reply, fewer reports than the command has were written and
\* none is written after the reply; the session is not terminated and no
\* Disconnected or other event is sent; the queue is kept and the worker
\* goes on with the drain.
C36_WriteFailureIsReply ==
    /\ [][FailsCommand =>
            /\ WriteCount(cur.id) < NumWrites(cur)
            /\ cstat'[cur.id] \in {"err", "cancelled"}
            /\ pc' = "drain"
            /\ term' = "none"
            /\ cmdq' = cmdq
            /\ decoded' = decoded
            /\ events' = events]_vars
    /\ [](\A k \in 1..Len(devlog) :
              ErrorReplyAt(devlog, k) =>
                  \A j \in (k + 1)..Len(devlog) : devlog[j].id # devlog[k].id)

\* The second report of an image failed; after the error reply the next
\* command was executed and answered Ok, and a report was read.
C36_Witness ==
    /\ \E k \in 2..Len(devlog) :
           /\ ErrorReplyAt(devlog, k)
           /\ devlog[k - 1].op = "write"
           /\ devlog[k - 1].id = devlog[k].id
           /\ \E j \in (k + 1)..Len(devlog) :
                  devlog[j].op = "reply" /\ devlog[j].ok
    /\ nreads >= 1
    /\ term = "none"

(***************************************************************************)
(* Commands and the input poll (StarveSpec).                               *)
(***************************************************************************)

\* C37: in a running session the command drain of an iteration comes to an
\* end and the input poll is reached, also when callers keep issuing
\* commands one after another.
C37_InputNotStarved == (pc = "drain") ~> (pc = "read")

(***************************************************************************)
(* The expansion of a binding (CodecSpec).                                 *)
(***************************************************************************)
RECURSIVE Leaves(_)
RECURSIVE LeavesOfSteps(_)

\* The leaves of the tree of a binding, depth first and left to right, the
\* delay of a macro step in front of the leaves of that step.
Leaves(b) ==
    IF b.binding = "Plugin" THEN <<[step |-> "Plugin", p |-> b.p]>>
    ELSE IF b.bi.builtin = "macro" THEN LeavesOfSteps(b.bi.steps)
    ELSE <<[step |-> "Builtin", bi |-> b.bi]>>

LeavesOfSteps(macro_steps) ==
    IF macro_steps = <<>> THEN <<>>
    ELSE (IF Head(macro_steps).delay_ms = None THEN <<>>
          ELSE <<[step |-> "DelayMs", ms |-> Head(macro_steps).delay_ms[1]]>>)
         \o Leaves(Head(macro_steps).action)
         \o LeavesOfSteps(Tail(macro_steps))

IsMacro(b) == b.binding = "Builtin" /\ b.bi.builtin = "macro"

\* C38: expand either fails with MacroTooLarge or returns at most 128
\* steps; the steps returned are the leaves of the macro tree depth first
\* and left to right, each macro step's DelayMs immediately before that
\* step's expansion; a binding that is no macro expands to exactly one step.
C38_Expand ==
    codec.fn = "expand" =>
        /\ ~codec.out.ok => codec.out.err = "MacroTooLarge"
        /\ codec.out.ok =>
              /\ Len(codec.out.steps) <= 128
              /\ codec.out.steps = Leaves(codec.binding)
        /\ ~IsMacro(codec.binding) =>
              /\ codec.out.ok
              /\ Len(codec.out.steps) = 1

\* A nested macro with delays expanded to exactly 128 steps, the last of
\* them the leaf of the second step behind its delay.
C38_Witness ==
    /\ codec.fn = "expand"
    /\ codec.out.ok
    /\ Len(codec.out.steps) = 128
    /\ codec.out.steps[127].step = "DelayMs"
    /\ codec.out.steps[1].step = "DelayMs"
    /\ codec.out.steps[2].step = "Plugin"
    /\ codec.out.steps[128].step = "Builtin"

====
